---------------------------- MODULE Spec2Model ----------------------------
(***************************************************************************)
(* Roffline media download pipeline.                                       *)
(*                                                                         *)
(* downloadPostsMedia (the Batch Orchestrator) sweeps a batch of posts     *)
(* with bounded concurrency, drives the progress tracker                   *)
(* (adminMediaDownloadsViewerOrganiser) and persists per-post outcomes.    *)
(* Every await of the per-post callback is a suspension point, so the      *)
(* callback is cut into one action per continuation.                       *)
(***************************************************************************)
EXTENDS Naturals, Sequences, FiniteSets, TLC

(***************************************************************************)
(* Bounds of the model.                                                    *)
(***************************************************************************)
\* number of downloadPostsMedia invocations explored
MaxRuns == 2
\* largest batch handed to one invocation
MaxBatch == 3
\* largest numberMediaDownloadsAtOnce explored
MaxLimit == 2
\* number of connections to the server-sent-events route explored
MaxSubscribers == 2
\* largest batch of the runs that vary the posts' categories or are watched
\* over the server-sent-events route
MaxShortBatch == 2

PostNames == <<"p1", "p2", "p3", "p4">>
Posts == {PostNames[k] : k \in 1..MaxBatch}
Runs == 1..MaxRuns
Subscribers == 1..MaxSubscribers

\* Try counts a post can have in the database before the first batch:
\* one try left, or none.
InitialTries == {2, 3}

(***************************************************************************)
(* Values                                                                  *)
(***************************************************************************)
Undefined == "undefined"
Pending == "pending"
DownloadError == "Error: download failed"
FilesystemError == "Error: cannot create folder"
DatabaseError == "Error: database write failed"
OfflineError == "Error: getaddrinfo ENOTFOUND"
Errors == {DownloadError, FilesystemError, DatabaseError, OfflineError}

TooManyTriesReason == "Download Skipped: Too many download tries (3)."

NoRecord == [absent |-> TRUE]

\* JavaScript values tagged with their type
String(str) == [type |-> "string", val |-> str]
Number(n) == [type |-> "number", val |-> n]
Boolean(b) == [type |-> "boolean", val |-> b]
ErrorObject(err) == [type |-> "Error", val |-> err]
UndefinedValue == [type |-> "undefined", val |-> Undefined]

VARIABLES
  mediaDownloadTries,  \* database: posts.mediaDownloadTries
  mediaDownloaded,     \* database: posts.media_has_been_downloaded
  mediaFolders,        \* filesystem: posts that have a media folder
  directLink,          \* posts whose url is a direct media link
  trackerPosts,        \* adminMediaDownloadsViewerOrganiser.posts
  current,             \* number of downloadPostsMedia invocations so far
  batch,               \* per run: postsArr (post objects as handed in)
  limit,               \* per run: adminSettings.numberMediaDownloadsAtOnce
  pc,                  \* per run, per index: where the callback is suspended
  res,                 \* per run, per index: value the callback returned
  calls,               \* per run, per index: tracker/executor calls it issued
  promise,             \* per run: state of the returned promise
  result,              \* per run: value the promise resolved with
  interfered,          \* posts whose record a callback of a superseded run changed
  dropped,             \* posts for which the tracker dropped an update
  categories,          \* per post: the other categorizer predicates it satisfies
  listeners,           \* adminMediaDownloadsViewerOrganiserEmitter: <<event, subscriber>>
  connection,          \* per subscriber: state of its request/reply pair
  frames               \* per subscriber: the frames written to reply.raw so far;
                       \* the stream of a closed connection is gone

VARIABLES
  userSubreddits,      \* database: users.subreddits, per user
  masterList,          \* database: the subreddits master list
  subredditTables,     \* database: the subreddit_table_<sub> tables that exist
  subredditTablesMap,  \* in memory: subredditTablesMap's keys
  writer,              \* the db call whose transaction holds the write lock, or 0
  dbCall,              \* per db call: operation, arguments, locals, position
  commentsDownloaded,  \* database: posts.commentsDownloaded
  commentsDB,          \* key-value store: the comments string stored per post
  save,                \* the batchSaveComments call: arguments and position
  comments             \* what the last getPostComments call settled with

postTraits == <<categories>>

subsVars == <<userSubreddits, masterList, subredditTables, subredditTablesMap, writer, dbCall>>

commentsVars == <<commentsDownloaded, commentsDB, save, comments>>

storeVars == <<subsVars, commentsVars>>

downloadVars == <<mediaDownloadTries, mediaDownloaded, mediaFolders, directLink, trackerPosts, current, batch, limit, pc, res, calls, promise, result, interfered, dropped, categories, listeners, connection, frames>>

sseVars == <<listeners, connection, frames>>

vars == <<mediaDownloadTries, mediaDownloaded, mediaFolders, directLink,
          trackerPosts, current, batch, limit, pc, res, calls, promise,
          result, interfered, dropped, categories, listeners, connection,
          frames, userSubreddits, masterList, subredditTables,
          subredditTablesMap, writer, dbCall, commentsDownloaded, commentsDB,
          save, comments>>

dbVars == <<mediaDownloadTries, mediaDownloaded>>

(***************************************************************************)
(* Helpers                                                                 *)
(***************************************************************************)
Range(s) == {s[i] : i \in DOMAIN s}

RECURSIVE SeqFilterIdx(_, _, _)
\* the elements s[i], i >= from, that are in keep, in order
SeqFilterIdx(s, keep, from) ==
  IF from > Len(s) THEN <<>>
  ELSE IF s[from] \in keep
       THEN <<s[from]>> \o SeqFilterIdx(s, keep, from + 1)
       ELSE SeqFilterIdx(s, keep, from + 1)

DistinctSeqs(S, n) ==
  {s \in UNION {[1..k -> S] : k \in 0..n} :
     \A i, j \in DOMAIN s : i # j => s[i] # s[j]}

PostIds(r) == {batch[r][i].id : i \in DOMAIN batch[r]}

(***************************************************************************)
(* The orchestrator's pure helpers                                         *)
(***************************************************************************)
maxNumberDownloadTriesAllowed == 3

tooManyDownloadTriesOffByOne(post) ==
  post.mediaDownloadTries > maxNumberDownloadTriesAllowed

\* a budget check that lets every post through
tooManyDownloadTriesNever(post) == FALSE

tooManyDownloadTries(post) ==
  post.mediaDownloadTries >= maxNumberDownloadTriesAllowed

isNotError(item) == item \notin Errors
isNotNil(item) == item # Undefined

removeFailedDownloads(items) ==
  SeqFilterIdx(items, {x \in Range(items) : isNotError(x) /\ isNotNil(x)}, 1)

isDirectMediaLink(post) == post.id \in directLink

\* the other predicates of posts-media-categorizers
OtherCategorizers ==
  {"isVideoPost", "isTextPostWithNoUrlInPost", "isNotRedditUrl", "isCrossPost"}

isVideoPost(post) == "isVideoPost" \in categories[post.id]
isTextPostWithNoUrlInPost(post) == "isTextPostWithNoUrlInPost" \in categories[post.id]
isNotRedditUrl(post) == "isNotRedditUrl" \in categories[post.id]
isCrossPost(post) == "isCrossPost" \in categories[post.id]

Satisfies(predicate, post) ==
  CASE predicate = "isDirectMediaLink" -> isDirectMediaLink(post)
    [] predicate = "isVideoPost" -> isVideoPost(post)
    [] predicate = "isTextPostWithNoUrlInPost" -> isTextPostWithNoUrlInPost(post)
    [] predicate = "isNotRedditUrl" -> isNotRedditUrl(post)
    [] predicate = "isCrossPost" -> isCrossPost(post)
    [] OTHER -> TRUE

RECURSIVE cond(_, _)
\* R.cond: the transformer of the first pair whose predicate holds, undefined
\* when none does
cond(pairs, post) ==
  IF pairs = <<>> THEN Undefined
  ELSE IF Satisfies(Head(pairs)[1], post) THEN Head(pairs)[2]
       ELSE cond(Tail(pairs), post)

\* the pairs of R.cond that are in force (line 39; lines 40-57 are comments)
CondPairs == << <<"isDirectMediaLink", "downloadDirectMediaLink">> >>

(***************************************************************************)
(* The progress tracker (adminMediaDownloadsViewerOrganiser).  A record    *)
(* carries the boolean lifecycle flags the observers read, the in-memory   *)
(* try counter, the attached error and the cancel/skip reason.  An update  *)
(* for a post with no record in the table is dropped.                      *)
(***************************************************************************)
Flags == {"downloadTryIncremented", "downloadStarted", "downloadSucceeded",
          "downloadFailed", "downloadCancelled", "downloadSkipped"}

FreshRecord(post) ==
  [flags |-> {},
   mediaDownloadTries |-> post.mediaDownloadTries,
   downloadError |-> "",
   reason |-> "",
   downloadFileSize |-> 0,
   downloadedBytes |-> 0,
   downloadSpeed |-> 0,
   downloadProgress |-> 0]

HasRecord(table, postId) == table[postId] # NoRecord

\* a re-initialisation that keeps the record of a post it already tracks
initializeWithNewPostsMerging(postsArr) ==
  [p \in Posts |->
     IF \E i \in DOMAIN postsArr : postsArr[i].id = p
     THEN IF HasRecord(trackerPosts, p) THEN trackerPosts[p]
          ELSE FreshRecord(postsArr[CHOOSE i \in DOMAIN postsArr : postsArr[i].id = p])
     ELSE NoRecord]

initializeWithNewPosts(postsArr) ==
  [p \in Posts |->
     IF \E i \in DOMAIN postsArr : postsArr[i].id = p
     THEN FreshRecord(postsArr[CHOOSE i \in DOMAIN postsArr : postsArr[i].id = p])
     ELSE NoRecord]

trackerIncrementPostMediaDownloadTry(table, postId) ==
  IF HasRecord(table, postId)
  THEN [table EXCEPT ![postId].flags = @ \cup {"downloadTryIncremented"},
                     ![postId].mediaDownloadTries = @ + 1]
  ELSE table

setDownloadCancelled(table, postId, reason) ==
  IF HasRecord(table, postId)
  THEN [table EXCEPT ![postId].flags = @ \cup {"downloadCancelled"},
                     ![postId].reason = reason]
  ELSE table

\* an update that creates the record it does not find
setDownloadStartedUpsert(table, postId) ==
  [table EXCEPT ![postId] =
     IF HasRecord(table, postId)
     THEN [@ EXCEPT !.flags = @ \cup {"downloadStarted"}]
     ELSE [flags |-> {"downloadStarted"}, mediaDownloadTries |-> 0,
           downloadError |-> "", reason |-> "", downloadFileSize |-> 0,
           downloadedBytes |-> 0, downloadSpeed |-> 0, downloadProgress |-> 0]]

setDownloadStarted(table, postId) ==
  IF HasRecord(table, postId)
  THEN [table EXCEPT ![postId].flags = @ \cup {"downloadStarted"}]
  ELSE table

setDownloadSucceeded(table, postId) ==
  IF HasRecord(table, postId)
  THEN [table EXCEPT ![postId].flags = @ \cup {"downloadSucceeded"}]
  ELSE table

\* an intra-`started` update: the numbers change, the lifecycle flags do not
setDownloadProgress(table, postId, downloadFileSize, downloadedBytes, downloadSpeed, downloadProgress) ==
  IF HasRecord(table, postId)
  THEN [table EXCEPT ![postId].downloadFileSize = downloadFileSize,
                     ![postId].downloadedBytes = downloadedBytes,
                     ![postId].downloadSpeed = downloadSpeed,
                     ![postId].downloadProgress = downloadProgress]
  ELSE table

\* a tracker that would not record a failure caused by the host being offline
setDownloadFailedUnlessOffline(table, postId, err) ==
  IF HasRecord(table, postId) /\ err # OfflineError
  THEN [table EXCEPT ![postId].flags = @ \cup {"downloadFailed"},
                     ![postId].downloadError = err]
  ELSE table

setDownloadFailed(table, postId, err) ==
  IF HasRecord(table, postId)
  THEN [table EXCEPT ![postId].flags = @ \cup {"downloadFailed"},
                     ![postId].downloadError = err]
  ELSE table

\* The lifecycle state an observer reads off a record.
State(rec) ==
  IF "downloadFailed" \in rec.flags THEN "failed"
  ELSE IF "downloadSucceeded" \in rec.flags THEN "succeeded"
  ELSE IF "downloadSkipped" \in rec.flags THEN "skipped"
  ELSE IF "downloadCancelled" \in rec.flags THEN "cancelled"
  ELSE IF "downloadStarted" \in rec.flags THEN "started"
  ELSE IF "downloadTryIncremented" \in rec.flags THEN "download-try-incremented"
  ELSE "queued"

TerminalStates == {"succeeded", "failed", "cancelled", "skipped"}

(***************************************************************************)
(* The data-access object `db`: users' subscriptions, the subreddits       *)
(* master list and the per-subreddit tables.  A call is cut at its awaits. *)
(* A write waits while the transaction of another call holds the           *)
(* database's write lock; a read outside a transaction sees what has been  *)
(* committed.  What a transaction wrote is staged in dbCall[c].tx until it   *)
(* commits.                                                                *)
(***************************************************************************)
\* number of db calls that can be under way at the same time
MaxCalls == 2

DbCalls == 1..MaxCalls
Users == {"Kermit", "Kevin"}
\* subreddit names as stored, and as a user can type them
StoredSubs == {"aww", "cats"}
TypedSubs == StoredSubs \cup {"Aww"}

toLowerCase(str) == IF str = "Aww" THEN "aww" ELSE str

\* the user's list with the new subreddits, each once
omitDuplicateSubs(currentSubs, newSubs) == currentSubs \cup newSubs

NoWrites == [master |-> {}, subreddits |-> {}, tables |-> {}]

IdleCall ==
  [op |-> "none", userName |-> "", subreddits |-> {}, pc |-> "idle",
   userSubs |-> {}, allUsersSubreddits |-> {}, parts |-> {}, tx |-> NoWrites]

NewCall(op, userName, subreddits, at) ==
  [IdleCall EXCEPT !.op = op, !.userName = userName, !.subreddits = subreddits, !.pc = at]

CanWrite(c) == writer \in {0, c}

\* db.batchAddUserSubreddits(userName, subreddits) outside a transaction, which is
\* also db.addUserSubreddit(userName, subreddit) (lines 118-132): the read is issued.
batchAddUserSubreddits(c, userName, subreddits) ==
  /\ dbCall[c].op = "none"
  /\ dbCall' = [dbCall EXCEPT ![c] = NewCall("batchAddUserSubreddits", userName, subreddits,
                                         "getUserSubreddits")]
  /\ UNCHANGED <<userSubreddits, masterList, subredditTables, subredditTablesMap, writer>>

\* db.getUserSubreddits(userName) returned (lines 123, 158): it has no transaction,
\* so it read the committed list.
GetUserSubredditsReturns(c) ==
  /\ dbCall[c].pc = "getUserSubreddits"
  /\ dbCall' = [dbCall EXCEPT ![c].userSubs = userSubreddits[dbCall[c].userName],
                          ![c].pc = "update"]
  /\ UNCHANGED <<userSubreddits, masterList, subredditTables, subredditTablesMap, writer>>

\* UserModel.update({subreddits: omitDuplicateSubs(userSubs, subreddits)}) (lines 125-128)
UserUpdateReturns(c) ==
  /\ dbCall[c].op = "batchAddUserSubreddits"
  /\ dbCall[c].pc = "update"
  /\ writer = 0
  /\ userSubreddits' = [userSubreddits EXCEPT ![dbCall[c].userName] =
                          omitDuplicateSubs(dbCall[c].userSubs, dbCall[c].subreddits)]
  /\ dbCall' = [dbCall EXCEPT ![c].pc = "done"]
  /\ UNCHANGED <<masterList, subredditTables, subredditTablesMap, writer>>

\* db.removeUserSubreddit(userName, subreddit) (lines 143-169): the transaction
\* starts and the user's list is asked for (line 158).
removeUserSubreddit(c, userName, subreddit) ==
  /\ dbCall[c].op = "none"
  /\ dbCall' = [dbCall EXCEPT ![c] = NewCall("removeUserSubreddit", userName,
                                         {toLowerCase(subreddit)}, "getUserSubreddits")]
  /\ UNCHANGED <<userSubreddits, masterList, subredditTables, subredditTablesMap, writer>>

\* removeSubFromUser(userSubs, transaction) (lines 146-151)
removeSubFromUser(c) ==
  /\ dbCall[c].op = "removeUserSubreddit"
  /\ dbCall[c].pc = "update"
  /\ CanWrite(c)
  /\ writer' = c
  /\ dbCall' = [dbCall EXCEPT ![c].tx.subreddits = {dbCall[c].userSubs \ dbCall[c].subreddits},
                          ![c].pc = "getAllUsers"]
  /\ UNCHANGED <<userSubreddits, masterList, subredditTables, subredditTablesMap>>

\* getAllUsersSubredditsBarOneUser(userToOmit, transaction) (lines 133-141)
getAllUsersSubredditsBarOneUser(userToOmit) ==
  UNION {userSubreddits[u] : u \in Users \ {userToOmit}}

\* the transaction's callback returned the other users' subreddits (line 162)
\* and the transaction committed
RemoveTransactionCommits(c) ==
  /\ dbCall[c].op = "removeUserSubreddit"
  /\ dbCall[c].pc = "getAllUsers"
  /\ userSubreddits' = [userSubreddits EXCEPT ![dbCall[c].userName] =
                          CHOOSE subs \in dbCall[c].tx.subreddits : TRUE]
  /\ writer' = 0
  /\ dbCall' = [dbCall EXCEPT ![c].allUsersSubreddits =
                            getAllUsersSubredditsBarOneUser(dbCall[c].userName),
                          ![c].tx = NoWrites,
                          ![c].pc = "then"]
  /\ UNCHANGED <<masterList, subredditTables, subredditTablesMap>>

noOtherUserHasSubreddit(allUsersSubs, subToRemove) == subToRemove \notin allUsersSubs

\* removeSubredditTable(subredditToRemove): the table is dropped and forgotten
removeSubredditTable(subreddit) ==
  /\ subredditTables' = subredditTables \ {subreddit}
  /\ subredditTablesMap' = subredditTablesMap \ {subreddit}

\* .then(allUsersSubreddits => ...) (lines 164-168)
RemoveThen(c) ==
  LET subredditToRemove == CHOOSE sub \in dbCall[c].subreddits : TRUE IN
  /\ dbCall[c].op = "removeUserSubreddit"
  /\ dbCall[c].pc = "then"
  /\ IF noOtherUserHasSubreddit(dbCall[c].allUsersSubreddits, subredditToRemove)
     THEN writer = 0 /\ removeSubredditTable(subredditToRemove)
     ELSE UNCHANGED <<subredditTables, subredditTablesMap>>
  /\ dbCall' = [dbCall EXCEPT ![c].pc = "done"]
  /\ UNCHANGED <<userSubreddits, masterList, writer>>

\* db.addSubreddit(userName, newSub) (lines 190-198): the transaction starts and
\* Promise.all starts its three members.
addSubreddit(c, userName, newSub) ==
  /\ dbCall[c].op = "none"
  /\ dbCall' = [dbCall EXCEPT ![c] = NewCall("addSubreddit", userName, {newSub}, "transaction")]
  /\ UNCHANGED <<userSubreddits, masterList, subredditTables, subredditTablesMap, writer>>

InTransaction(c, todo, after) ==
  /\ dbCall[c].op = "addSubreddit"
  /\ dbCall[c].pc = "transaction"
  /\ todo \notin dbCall[c].parts
  /\ after \subseteq dbCall[c].parts

\* db.addSingleSubredditToMasterList(newSub, transaction) (lines 184-189, 193)
addSingleSubredditToMasterList(c) ==
  /\ InTransaction(c, "masterList", {})
  /\ CanWrite(c)
  /\ writer' = c
  /\ dbCall' = [dbCall EXCEPT ![c].tx.master = dbCall[c].subreddits,
                          ![c].parts = @ \cup {"masterList"}]
  /\ UNCHANGED <<userSubreddits, masterList, subredditTables, subredditTablesMap>>

\* db.addUserSubreddit(userName, newSub, transaction) (line 194): its read of the
\* user's list has no transaction (line 123)
AddUserSubredditReads(c) ==
  /\ InTransaction(c, "getUserSubreddits", {})
  /\ dbCall' = [dbCall EXCEPT ![c].userSubs = userSubreddits[dbCall[c].userName],
                          ![c].parts = @ \cup {"getUserSubreddits"}]
  /\ UNCHANGED <<userSubreddits, masterList, subredditTables, subredditTablesMap, writer>>

\* ... and its update is part of the transaction (lines 125-128)
AddUserSubredditUpdates(c) ==
  /\ InTransaction(c, "userSubreddits", {"getUserSubreddits"})
  /\ CanWrite(c)
  /\ writer' = c
  /\ dbCall' = [dbCall EXCEPT ![c].tx.subreddits =
                            {omitDuplicateSubs(dbCall[c].userSubs, dbCall[c].subreddits)},
                          ![c].parts = @ \cup {"userSubreddits"}]
  /\ UNCHANGED <<userSubreddits, masterList, subredditTables, subredditTablesMap>>

\* createAndSyncSubredditTable(newSub, sequelize, transaction) (SubredditTable
\* lines 140-150): the table is created in the transaction, then the model is
\* put into subredditTablesMap
createAndSyncSubredditTable(c) ==
  LET subLower == toLowerCase(CHOOSE sub \in dbCall[c].subreddits : TRUE) IN
  /\ InTransaction(c, "subredditTable", {})
  /\ CanWrite(c)
  /\ writer' = c
  /\ subredditTablesMap' = subredditTablesMap \cup {subLower}
  /\ dbCall' = [dbCall EXCEPT ![c].tx.tables = {subLower},
                          ![c].parts = @ \cup {"subredditTable"}]
  /\ UNCHANGED <<userSubreddits, masterList, subredditTables>>

TransactionParts == {"masterList", "userSubreddits", "subredditTable"}

\* Promise.all resolved: the transaction commits
AddSubredditCommits(c) ==
  /\ dbCall[c].op = "addSubreddit"
  /\ dbCall[c].pc = "transaction"
  /\ TransactionParts \subseteq dbCall[c].parts
  /\ masterList' = masterList \cup dbCall[c].tx.master
  /\ userSubreddits' = [userSubreddits EXCEPT ![dbCall[c].userName] =
                          CHOOSE subs \in dbCall[c].tx.subreddits : TRUE]
  /\ subredditTables' = subredditTables \cup dbCall[c].tx.tables
  /\ writer' = 0
  /\ dbCall' = [dbCall EXCEPT ![c].tx = NoWrites, ![c].pc = "done"]
  /\ UNCHANGED subredditTablesMap

\* one of the three members rejected: Promise.all rejects and the transaction is
\* rolled back
AddSubredditFails(c) ==
  /\ dbCall[c].op = "addSubreddit"
  /\ dbCall[c].pc = "transaction"
  /\ ~(TransactionParts \subseteq dbCall[c].parts)
  /\ writer' = IF writer = c THEN 0 ELSE writer
  /\ dbCall' = [dbCall EXCEPT ![c].tx = NoWrites, ![c].pc = "rejected"]
  /\ UNCHANGED <<userSubreddits, masterList, subredditTables, subredditTablesMap>>

IdleSubs ==
  /\ userSubreddits = [u \in Users |-> {}]
  /\ masterList = {}
  /\ subredditTables = {}
  /\ subredditTablesMap = {}
  /\ writer = 0
  /\ dbCall = [c \in DbCalls |-> IdleCall]

(***************************************************************************)
(* The comments of a post: the flag posts.commentsDownloaded in the        *)
(* database and the string stored under the post's id in the key-value     *)
(* store commentsDB.  JavaScript values are tagged with their type.        *)
(***************************************************************************)
Null == [type |-> "null", val |-> "null"]
Array(items) == [type |-> "array", val |-> items]
Object(fields) == [type |-> "object", val |-> fields]
SyntaxError == [type |-> "throw", val |-> "SyntaxError"]

\* the posts whose comments are saved and read
CommentedPosts == {PostNames[k] : k \in 1..MaxShortBatch}

\* comments strings as they are fetched and stored
NotJson == "<html>Too Many Requests</html>"
NoListing == "{}"
NoChildren == "[{},{\"data\":{}}]"
NullChildren == "[{},{\"data\":{\"children\":null}}]"
EmptyChildren == "[{},{\"data\":{\"children\":[]}}]"
OneChild == "[{},{\"data\":{\"children\":[\"c1\"]}}]"

CommentsStrings == {NotJson, NoListing, NoChildren, NullChildren, EmptyChildren, OneChild}

JSONParse(text) ==
  CASE text = NoListing -> Object(<<>>)
    [] text = NoChildren -> Array(<<Object(<<>>), Object([data |-> Object(<<>>)])>>)
    [] text = NullChildren ->
         Array(<<Object(<<>>), Object([data |-> Object([children |-> Null])])>>)
    [] text = EmptyChildren ->
         Array(<<Object(<<>>), Object([data |-> Object([children |-> Array(<<>>)])])>>)
    [] text = OneChild ->
         Array(<<Object(<<>>),
                 Object([data |-> Object([children |-> Array(<<String("c1")>>)])])>>)
    [] OTHER -> SyntaxError

\* obj[key] for one element of a path: an array index or a property name
Index(n) == [index |-> n]
Key(name) == [key |-> name]

prop(obj, k) ==
  IF obj.type = "array" /\ "index" \in DOMAIN k
  THEN IF k.index + 1 \in DOMAIN obj.val THEN obj.val[k.index + 1] ELSE UndefinedValue
  ELSE IF obj.type = "object" /\ "key" \in DOMAIN k
       THEN IF k.key \in DOMAIN obj.val THEN obj.val[k.key] ELSE UndefinedValue
       ELSE UndefinedValue

RECURSIVE Rpath(_, _)
\* R.path
Rpath(keys, obj) ==
  IF keys = <<>> THEN obj
  ELSE IF obj.type \in {"null", "undefined"} THEN UndefinedValue
       ELSE Rpath(Tail(keys), prop(obj, Head(keys)))

\* R.pathOr: the default replaces a null or undefined value at the path
pathOr(default, keys, obj) ==
  LET val == Rpath(keys, obj)
  IN IF val.type \in {"null", "undefined"} THEN default ELSE val

\* a parse that lets the SyntaxError through
JSONParseUnguarded(text) == JSONParse(text)

\* R.tryCatch(uJSONParse, R.always({})) (lines 236-238)
tryParseJson(text) ==
  LET parsed == JSONParse(text)
  IN IF parsed.type = "throw" THEN Object(<<>>) ELSE parsed

\* R.compose(R.pathOr([], [1, 'data', 'children']), tryParseJson) (line 241);
\* an exception of the parse would leave the function
getCommentsData(text) ==
  LET parsed == tryParseJson(text)
  IN IF parsed.type = "throw" THEN parsed
     ELSE pathOr(Array(<<>>), <<Index(1), Key("data"), Key("children")>>, parsed)

\* db.getPostComments(postId) (lines 233-250): what the caller gets
getPostComments(postId) ==
  LET stored == commentsDB[postId]
      val == IF stored.type \in {"null", "undefined"} THEN Null
             ELSE getCommentsData(stored.val)
  IN IF val.type = "throw" THEN [state |-> "threw", value |-> val]
     ELSE [state |-> "resolved", value |-> val]

NoSave == [pc |-> "idle", postsComments |-> <<>>]

NotAsked == [postId |-> "", promise |-> [state |-> "none", value |-> UndefinedValue]]

\* db.batchSaveComments(postsComments) (lines 209-232): the transaction that
\* sets the flags is started (lines 215-217)
batchSaveComments(postsComments) ==
  /\ save.pc = "idle"
  /\ save' = [pc |-> "transaction", postsComments |-> postsComments]
  /\ UNCHANGED <<commentsDownloaded, commentsDB, comments>>

\* PostModel.update({commentsDownloaded: true}, {where: {id: {[Op.in]: postIds}}})
\* committed; commentsDB.transactionAsync is called (line 219)
FlagsUpdateReturns ==
  /\ save.pc = "transaction"
  /\ commentsDownloaded' = [p \in CommentedPosts |->
                              commentsDownloaded[p] \/ p \in DOMAIN save.postsComments]
  /\ save' = [save EXCEPT !.pc = "transactionAsync"]
  /\ UNCHANGED <<commentsDB, comments>>

\* the transaction rejected: batchSaveComments rejects
FlagsUpdateFails ==
  /\ save.pc = "transaction"
  /\ save' = NoSave
  /\ UNCHANGED <<commentsDownloaded, commentsDB, comments>>

\* commentsDB.put(id, comments) for every post (lines 219-223)
PutReturns ==
  /\ save.pc = "transactionAsync"
  /\ commentsDB' = [p \in CommentedPosts |->
                      IF p \in DOMAIN save.postsComments
                      THEN String(save.postsComments[p]) ELSE commentsDB[p]]
  /\ save' = NoSave
  /\ UNCHANGED <<commentsDownloaded, comments>>

\* the key-value store's transaction rejected: batchSaveComments rejects
PutFails ==
  /\ save.pc = "transactionAsync"
  /\ save' = NoSave
  /\ UNCHANGED <<commentsDownloaded, commentsDB, comments>>

GetPostComments(postId) ==
  /\ comments' = [postId |-> postId, promise |-> getPostComments(postId)]
  /\ UNCHANGED <<commentsDownloaded, commentsDB, save>>

IdleComments ==
  /\ commentsDownloaded = [p \in CommentedPosts |-> FALSE]
  /\ commentsDB = [p \in CommentedPosts |-> UndefinedValue]
  /\ save = NoSave
  /\ comments = NotAsked

InitStores == IdleSubs /\ IdleComments

(***************************************************************************)
(* Initial state: nothing has been downloaded, no batch was submitted.     *)
(***************************************************************************)
Init ==
  /\ mediaDownloadTries \in [Posts -> InitialTries]
  /\ mediaDownloaded = [p \in Posts |-> FALSE]
  /\ mediaFolders = {}
  /\ directLink \in SUBSET Posts
  /\ trackerPosts = [p \in Posts |-> NoRecord]
  /\ current = 0
  /\ batch = [r \in Runs |-> <<>>]
  /\ limit = [r \in Runs |-> 1]
  /\ pc = [r \in Runs |-> <<>>]
  /\ res = [r \in Runs |-> <<>>]
  /\ calls = [r \in Runs |-> <<>>]
  /\ promise = [r \in Runs |-> "none"]
  /\ result = [r \in Runs |-> <<>>]
  /\ interfered = {}
  /\ dropped = {}
  /\ categories = [p \in Posts |-> {}]
  /\ listeners = {}
  /\ connection = [s \in Subscribers |-> "none"]
  /\ frames = [s \in Subscribers |-> <<>>]
  /\ InitStores

(***************************************************************************)
(* forEachAsync with {concurrency}: the posts are handed to the callback   *)
(* in array order, the next one as soon as fewer than `concurrency`        *)
(* callbacks are unsettled; nothing is handed out once a callback          *)
(* rejected.  A callback runs synchronously up to its first await          *)
(* (lines 78-90), so handing out is part of the step that frees the slot.  *)
(***************************************************************************)
Awaiting == {"awaitIncrement", "awaitFolder", "awaitDownload", "awaitFlag", "awaitLog"}

At(r, i, label) == i \in DOMAIN pc[r] /\ pc[r][i] = label

InFlightOf(pcs) == {i \in DOMAIN pcs : pcs[i] \in Awaiting}

InFlight(r) == InFlightOf(pc[r])

SlotFreeUnbounded(pcs, concurrency) == TRUE

SlotFree(pcs, concurrency) == Cardinality(InFlightOf(pcs)) < concurrency

\* a pool that hands out the last waiting post first
LastQueued(pcs) ==
  CHOOSE i \in DOMAIN pcs : pcs[i] = "queued" /\ \A j \in DOMAIN pcs : pcs[j] = "queued" => i >= j

FirstQueued(pcs) ==
  CHOOSE i \in DOMAIN pcs : pcs[i] = "queued" /\ \A j \in DOMAIN pcs : pcs[j] = "queued" => i <= j

\* The callback up to its first await, on the run state st = [pc, res, calls, table].
CallbackEntry(post, i, st) ==
  IF tooManyDownloadTries(post)
  THEN [pc |-> [st.pc EXCEPT ![i] = "done"],
        res |-> [st.res EXCEPT ![i] = Undefined],
        calls |-> [st.calls EXCEPT ![i] = Append(@, "cancel")],
        table |-> setDownloadCancelled(st.table, post.id, TooManyTriesReason)]
  ELSE [pc |-> [st.pc EXCEPT ![i] = "awaitIncrement"],
        res |-> st.res,
        calls |-> [st.calls EXCEPT ![i] = Append(@, "incrementTry")],
        table |-> trackerIncrementPostMediaDownloadTry(st.table, post.id)]

RECURSIVE forEachAsync(_, _, _)
forEachAsync(postsArr, concurrency, st) ==
  IF (\E i \in DOMAIN st.pc : st.pc[i] = "queued") /\ SlotFree(st.pc, concurrency)
  THEN LET i == FirstQueued(st.pc)
       IN forEachAsync(postsArr, concurrency, CallbackEntry(postsArr[i], i, st))
  ELSE st

\* a pool that would settle only after some callback returned
AllReturnedSome(pcs) == pcs # <<>> /\ \A i \in DOMAIN pcs : pcs[i] = "done"

AllReturned(pcs) == \A i \in DOMAIN pcs : pcs[i] = "done"

\* Run r continues from st after one of its callbacks settled: hand out the next
\* posts, and when every callback returned, .then(removeFailedDownloads) settles
\* the promise (line 125).
Continue(r, st) ==
  LET live == (r = current /\ promise[r] = "pending")
      st2 == IF live THEN forEachAsync(batch[r], limit[r], st) ELSE st
  IN /\ pc' = [pc EXCEPT ![r] = st2.pc]
     /\ res' = [res EXCEPT ![r] = st2.res]
     /\ calls' = [calls EXCEPT ![r] = st2.calls]
     /\ trackerPosts' = st2.table
     /\ IF live /\ AllReturned(st2.pc)
        THEN /\ promise' = [promise EXCEPT ![r] = "resolved"]
             /\ result' = [result EXCEPT ![r] = removeFailedDownloads(st2.res)]
        ELSE UNCHANGED <<promise, result>>

RunState(r) == [pc |-> pc[r], res |-> res[r], calls |-> calls[r], table |-> trackerPosts]

\* The callback's promise rejected: forEachAsync rejects, and so does the
\* promise downloadPostsMedia returned (once).
Rejects(r, i) ==
  /\ pc' = [pc EXCEPT ![r][i] = "rejected"]
  /\ promise' = [promise EXCEPT ![r] = IF @ = "pending" THEN "rejected" ELSE @]

\* Bookkeeping of a tracker call for postId by a callback of run r.
NoteTrackerCall(r, postId) ==
  /\ dropped' = IF HasRecord(trackerPosts, postId) THEN dropped
                ELSE dropped \cup {postId}
  /\ interfered' = IF r < current /\ HasRecord(trackerPosts, postId)
                   THEN interfered \cup {postId} ELSE interfered

(***************************************************************************)
(* downloadPostsMedia(adminSettings, postsMediaToBeDownloaded)             *)
(* The caller hands in the posts as it read them from the database, once   *)
(* the promise of its previous call has settled.  What remains of a        *)
(* superseded run are its unsettled callbacks.                             *)
(***************************************************************************)
TableKeptAtBatchStart(postsArr) == trackerPosts

TableAtBatchStart(postsArr) == initializeWithNewPosts(postsArr)

Superseded(q) ==
  [pc |-> [i \in DOMAIN pc[q] |-> IF pc[q][i] \in Awaiting THEN pc[q][i] ELSE "gone"],
   batch |-> [i \in DOMAIN batch[q] |-> [id |-> batch[q][i].id, mediaDownloadTries |-> 0]],
   res |-> [i \in DOMAIN res[q] |-> Pending],
   calls |-> [i \in DOMAIN calls[q] |-> <<>>]]

downloadPostsMedia(ids, n) ==
  LET r == current + 1
      postsArr == [i \in DOMAIN ids |->
                     [id |-> ids[i], mediaDownloadTries |-> mediaDownloadTries[ids[i]]]]
      st == forEachAsync(postsArr, n,
                         [pc |-> [i \in DOMAIN ids |-> "queued"],
                          res |-> [i \in DOMAIN ids |-> Pending],
                          calls |-> [i \in DOMAIN ids |-> <<>>],
                          table |-> TableAtBatchStart(postsArr)])
  IN /\ current < MaxRuns
     /\ current > 0 => promise[current] \in {"resolved", "rejected"}
     /\ current' = r
     /\ batch' = [q \in Runs |-> IF q = r THEN postsArr
                                 ELSE IF q < r THEN Superseded(q).batch ELSE batch[q]]
     /\ limit' = [limit EXCEPT ![r] = n]
     /\ trackerPosts' = st.table
     /\ pc' = [q \in Runs |-> IF q = r THEN st.pc
                              ELSE IF q < r THEN Superseded(q).pc ELSE pc[q]]
     /\ res' = [q \in Runs |-> IF q = r THEN st.res
                               ELSE IF q < r THEN Superseded(q).res ELSE res[q]]
     /\ calls' = [q \in Runs |-> IF q = r THEN st.calls
                                 ELSE IF q < r THEN Superseded(q).calls ELSE calls[q]]
     /\ promise' = [q \in Runs |-> IF q = r THEN (IF AllReturned(st.pc) THEN "resolved" ELSE "pending")
                                   ELSE IF q < r THEN "superseded" ELSE promise[q]]
     /\ result' = [q \in Runs |-> IF q = r /\ AllReturned(st.pc) THEN removeFailedDownloads(st.res)
                                  ELSE <<>>]
     /\ interfered' = {}
     /\ dropped' = {}
     /\ UNCHANGED <<dbVars, mediaFolders, directLink>>

(***************************************************************************)
(* The continuations of the per-post callback                              *)
(***************************************************************************)
\* await db.incrementPostMediaDownloadTry(post.id) returned (line 90);
\* createMediaFolderForPost is called next (line 92).
\* an increment that charges two tries
dbIncrementPostMediaDownloadTryTwice(postId) ==
  mediaDownloadTries' = [mediaDownloadTries EXCEPT ![postId] = @ + 2]

dbIncrementPostMediaDownloadTry(postId) ==
  mediaDownloadTries' = [mediaDownloadTries EXCEPT ![postId] = @ + 1]

IncrementReturns(r, i) ==
  /\ At(r, i, "awaitIncrement")
  /\ dbIncrementPostMediaDownloadTry(batch[r][i].id)
  /\ pc' = [pc EXCEPT ![r][i] = "awaitFolder"]
  /\ UNCHANGED <<mediaDownloaded, mediaFolders, directLink, trackerPosts, current,
                 batch, limit, res, calls, promise, result, interfered, dropped>>

\* db.incrementPostMediaDownloadTry rejected: line 90 is outside the try block.
IncrementFails(r, i) ==
  /\ At(r, i, "awaitIncrement")
  /\ Rejects(r, i)
  /\ UNCHANGED <<dbVars, mediaFolders, directLink, trackerPosts, current, batch,
                 limit, res, calls, result, interfered, dropped>>

\* pCreateFolder resolved (lines 30-34, 92).
createMediaFolderForPost(postId) == mediaFolders' = mediaFolders \cup {postId}

\* R.cond with the single pair [isDirectMediaLink, downloadDirectMediaLink]:
\* the executor is invoked for a direct media link, any other post yields undefined.
downloadIndividualPostMedia(post) ==
  IF cond(CondPairs, post) = "downloadDirectMediaLink" THEN <<"execute">> ELSE <<>>

\* The try block up to the executor's await (lines 96-102).
FolderReturnsDirect(r, i) ==
  LET post == batch[r][i] IN
  /\ At(r, i, "awaitFolder")
  /\ downloadIndividualPostMedia(post) # <<>>
  /\ createMediaFolderForPost(post.id)
  /\ trackerPosts' = setDownloadStarted(trackerPosts, post.id)
  /\ calls' = [calls EXCEPT ![r][i] = Append(@, "start") \o downloadIndividualPostMedia(post)]
  /\ pc' = [pc EXCEPT ![r][i] = "awaitDownload"]
  /\ NoteTrackerCall(r, post.id)
  /\ UNCHANGED <<dbVars, directLink, current, batch, limit, res, promise, result>>

\* The try block of a post that matched no predicate: awaiting undefined does not
\* wait for I/O, so it runs on to db.setMediaDownloadedTrueForPost (lines 96-106).
FolderReturnsNoMatch(r, i) ==
  LET post == batch[r][i] IN
  /\ At(r, i, "awaitFolder")
  /\ downloadIndividualPostMedia(post) = <<>>
  /\ createMediaFolderForPost(post.id)
  /\ trackerPosts' = setDownloadSucceeded(setDownloadStarted(trackerPosts, post.id), post.id)
  /\ calls' = [calls EXCEPT ![r][i] = @ \o <<"start", "succeed">>]
  /\ pc' = [pc EXCEPT ![r][i] = "awaitFlag"]
  /\ NoteTrackerCall(r, post.id)
  /\ UNCHANGED <<dbVars, directLink, current, batch, limit, res, promise, result>>

\* pCreateFolder rejected: line 92 is outside the try block.
FolderFails(r, i) ==
  /\ At(r, i, "awaitFolder")
  /\ Rejects(r, i)
  /\ UNCHANGED <<dbVars, mediaFolders, directLink, trackerPosts, current, batch,
                 limit, res, calls, result, interfered, dropped>>

\* await downloadIndividualPostMedia(...) returned (line 98): setDownloadSucceeded,
\* then db.setMediaDownloadedTrueForPost is called (lines 104-106).
DownloadReturns(r, i) ==
  LET post == batch[r][i] IN
  /\ At(r, i, "awaitDownload")
  /\ trackerPosts' = setDownloadSucceeded(trackerPosts, post.id)
  /\ calls' = [calls EXCEPT ![r][i] = Append(@, "succeed")]
  /\ pc' = [pc EXCEPT ![r][i] = "awaitFlag"]
  /\ NoteTrackerCall(r, post.id)
  /\ UNCHANGED <<dbVars, mediaFolders, directLink, current, batch, limit, res,
                 promise, result>>

\* The catch block up to its await (lines 109-115): setDownloadFailed with the
\* caught error, then the error is handed to the logger.  res holds the local
\* downloadError until the callback returns it.
Catch(r, i, err) ==
  LET post == batch[r][i] IN
  /\ trackerPosts' = setDownloadFailed(trackerPosts, post.id, err)
  /\ calls' = [calls EXCEPT ![r][i] = Append(@, "fail")]
  /\ pc' = [pc EXCEPT ![r][i] = "awaitLog"]
  /\ res' = [res EXCEPT ![r][i] = err]
  /\ NoteTrackerCall(r, post.id)

\* downloadDirectMediaLink streams the file and pushes the recomputed numbers
\* into the tracker while the callback is suspended at line 98.
HalfWay == 50
FileSize == 200
Speed == 10

DownloadProgress(r, i) ==
  LET post == batch[r][i] IN
  /\ At(r, i, "awaitDownload")
  /\ "progress" \notin Range(calls[r][i])
  /\ trackerPosts' = setDownloadProgress(trackerPosts, post.id, FileSize,
                                         (FileSize * HalfWay) \div 100, Speed, HalfWay)
  /\ calls' = [calls EXCEPT ![r][i] = Append(@, "progress")]
  /\ NoteTrackerCall(r, post.id)
  /\ UNCHANGED <<dbVars, mediaFolders, directLink, current, batch, limit, pc, res,
                 promise, result>>

\* downloadDirectMediaLink rejected: the transfer failed, or the host is offline.
DownloadFails(r, i) ==
  /\ At(r, i, "awaitDownload")
  /\ \E err \in {DownloadError, OfflineError} : Catch(r, i, err)
  /\ UNCHANGED <<dbVars, mediaFolders, directLink, current, batch, limit, promise, result>>

\* await db.setMediaDownloadedTrueForPost(post.id) returned: return post.id (line 108).
dbSetMediaDownloadedTrueForPost(postId) ==
  mediaDownloaded' = [mediaDownloaded EXCEPT ![postId] = TRUE]

FlagReturns(r, i) ==
  LET post == batch[r][i]
      st == RunState(r)
  IN /\ At(r, i, "awaitFlag")
     /\ dbSetMediaDownloadedTrueForPost(post.id)
     /\ Continue(r, [st EXCEPT !.pc[i] = "done", !.res[i] = post.id])
     /\ UNCHANGED <<mediaDownloadTries, mediaFolders, directLink, current,
                    batch, limit, interfered, dropped>>

\* a callback that would return the identifier although the flag write rejected
FlagFailsReturningId(r, i) ==
  LET post == batch[r][i]
      st == RunState(r)
  IN /\ At(r, i, "awaitFlag")
     /\ Continue(r, [st EXCEPT !.pc[i] = "done", !.res[i] = post.id])
     /\ UNCHANGED <<dbVars, mediaFolders, directLink, current, batch, limit,
                    interfered, dropped>>

\* db.setMediaDownloadedTrueForPost rejected inside the try block: caught.
FlagFails(r, i) ==
  /\ At(r, i, "awaitFlag")
  /\ Catch(r, i, DatabaseError)
  /\ UNCHANGED <<dbVars, mediaFolders, directLink, current, batch, limit, promise, result>>

\* await logDownloadErrorIfNotOffline(err, post) returned: return downloadError (line 117).
LogReturns(r, i) ==
  LET st == RunState(r)
  IN /\ At(r, i, "awaitLog")
     /\ Continue(r, [st EXCEPT !.pc[i] = "done"])
     /\ UNCHANGED <<dbVars, mediaFolders, directLink, current, batch, limit,
                    interfered, dropped>>

(***************************************************************************)
(* What the tracker publishes.  Every update it applies is announced on    *)
(* adminMediaDownloadsViewerOrganiserEmitter, synchronously, with the      *)
(* arguments of the update; an update it drops is not announced.           *)
(***************************************************************************)
EventOfCall(call) ==
  CASE call = "incrementTry" -> "download-media-try-increment"
    [] call = "start" -> "download-started"
    [] call = "succeed" -> "download-succeeded"
    [] call = "fail" -> "download-failed"
    [] call = "cancel" -> "download-cancelled"
    [] call = "skip" -> "download-skipped"
    [] call = "progress" -> "download-progress"
    [] OTHER -> "none"

\* the calls the callback at index i of run r issued during the step
NewCalls(r, i) ==
  LET before == IF i \in DOMAIN calls[r] THEN Len(calls[r][i]) ELSE 0
      after == IF i \in DOMAIN calls'[r] THEN calls'[r][i] ELSE <<>>
  IN IF Len(after) > before THEN SubSeq(after, before + 1, Len(after)) ELSE <<>>

\* the notification of one applied update; it carries the arguments of the update
Notification(call, postId) ==
  [event |-> EventOfCall(call),
   postId |-> postId,
   err |-> trackerPosts'[postId].downloadError,
   reason |-> trackerPosts'[postId].reason,
   downloadFileSize |-> trackerPosts'[postId].downloadFileSize,
   downloadedBytes |-> trackerPosts'[postId].downloadedBytes,
   downloadSpeed |-> trackerPosts'[postId].downloadSpeed,
   downloadProgress |-> trackerPosts'[postId].downloadProgress]

RECURSIVE NotificationsOfCalls(_, _)
NotificationsOfCalls(c, postId) ==
  IF c = <<>> THEN <<>>
  ELSE IF EventOfCall(Head(c)) = "none" \/ ~HasRecord(trackerPosts', postId)
       THEN NotificationsOfCalls(Tail(c), postId)
       ELSE <<Notification(Head(c), postId)>> \o NotificationsOfCalls(Tail(c), postId)

RECURSIVE NotificationsFrom(_, _)
\* the notifications of the callbacks of run r at index i and above, in the
\* order the callbacks ran
NotificationsFrom(r, i) ==
  IF i > Len(batch'[r]) THEN <<>>
  ELSE NotificationsOfCalls(NewCalls(r, i), batch'[r][i].id) \o NotificationsFrom(r, i + 1)

\* initializeWithNewPosts announces the fresh table (line 72)
BatchStartedNotification ==
  [event |-> "new-download-batch-started",
   downloads |-> TableAtBatchStart(batch'[current'])]

\* everything the emitter announced during the step, in order
Emitted ==
  LET acting == {r \in Runs : \E i \in DOMAIN batch'[r] : NewCalls(r, i) # <<>>}
      updates == IF acting = {} THEN <<>>
                 ELSE NotificationsFrom(CHOOSE r \in acting : TRUE, 1)
  IN IF current' # current THEN <<BatchStartedNotification>> \o updates ELSE updates

(***************************************************************************)
(* The server-sent-events route (server-side-events.ts).  A value that     *)
(* goes into a frame is tagged with its JavaScript type, so that an Error  *)
(* object and the string describing it are different values.               *)
(***************************************************************************)

\* R.pick([...]) of a tracker record (lines 77-92)
PickedProps(postId, rec) ==
  [id |-> String(postId),
   downloadFailed |-> Boolean("downloadFailed" \in rec.flags),
   downloadError |-> IF rec.downloadError = "" THEN UndefinedValue
                     ELSE ErrorObject(rec.downloadError),
   downloadCancelled |-> Boolean("downloadCancelled" \in rec.flags),
   downloadCancellationReason |->
     String(IF "downloadCancelled" \in rec.flags THEN rec.reason ELSE ""),
   downloadSkipped |-> Boolean("downloadSkipped" \in rec.flags),
   downloadSkippedReason |->
     String(IF "downloadSkipped" \in rec.flags THEN rec.reason ELSE ""),
   downloadStarted |-> Boolean("downloadStarted" \in rec.flags),
   downloadSucceeded |-> Boolean("downloadSucceeded" \in rec.flags),
   downloadProgress |-> Number(rec.downloadProgress),
   downloadSpeed |-> Number(rec.downloadSpeed),
   downloadedBytes |-> Number(rec.downloadedBytes),
   downloadFileSize |-> Number(rec.downloadFileSize)]

\* RA.isError of a value: a picked download is a plain object, never an Error
isError(value) == "type" \in DOMAIN value /\ value.type = "Error"

toString(value) ==
  IF value.type = "Error" THEN String(value.val) ELSE value

stringifyAnyErrors(download) ==
  [download EXCEPT !.downloadError = IF isError(download) THEN toString(@) ELSE @]

HasData(value) ==
  CASE value.type = "string" -> value.val # ""
    [] value.type = "number" -> value.val > 0
    [] value.type = "boolean" -> value.val # FALSE
    [] value.type = "undefined" -> FALSE
    [] OTHER -> TRUE

\* a trimming that keeps every picked property
removePropsKeepingAll(download) == download

removePropsWithNoData(download) ==
  [k \in {key \in DOMAIN download : HasData(download[key])} |-> download[k]]

convertDownloadsMapForFrontend(downloads) ==
  [p \in {q \in Posts : HasRecord(downloads, q)} |->
     removePropsWithNoData(stringifyAnyErrors(PickedProps(p, downloads[p])))]

\* a first frame that replays nothing
PageLoadFrameEmpty ==
  [event |-> "page-load",
   data |-> convertDownloadsMapForFrontend([p \in Posts |-> NoRecord])]

PageLoadFrame ==
  [event |-> "page-load", data |-> convertDownloadsMapForFrontend(trackerPosts)]

\* The nine handlers of a connection (lines 113-202): the frame each one writes
\* for a notification n.
newDownloadBatchStarted(n) ==
  [event |-> "new-download-batch-started",
   data |-> convertDownloadsMapForFrontend(n.downloads)]
downloadsCleared(n) == [event |-> "downloads-cleared", data |-> "null"]
aDownloadStarted(n) == [event |-> "download-started", data |-> [postId |-> n.postId]]
aDownloadFailed(n) ==
  [event |-> "download-failed",
   data |-> [postId |-> n.postId,
             err |-> IF n.err # "" THEN toString(ErrorObject(n.err)) ELSE String("")]]
aDownloadSucceeded(n) == [event |-> "download-succeeded", data |-> [postId |-> n.postId]]
aDownloadCancelled(n) ==
  [event |-> "download-cancelled", data |-> [postId |-> n.postId, reason |-> n.reason]]
aDownloadSkipped(n) ==
  [event |-> "download-skipped", data |-> [postId |-> n.postId, reason |-> n.reason]]
progressOfADownload(n) ==
  [event |-> "download-skipped",
   data |-> [postId |-> n.postId,
             downloadFileSize |-> n.downloadFileSize,
             downloadedBytes |-> n.downloadedBytes,
             downloadSpeed |-> n.downloadSpeed,
             downloadProgress |-> n.downloadProgress]]
downloadTryIncrementForDownload(n) ==
  [event |-> "download-media-try-increment", data |-> [postId |-> n.postId]]

\* the registrations of lines 204-212: <<event, handler>>
Registrations ==
  {<<"new-download-batch-started", "newDownloadBatchStarted">>,
   <<"downloads-cleared", "downloadsCleared">>,
   <<"download-started", "aDownloadStarted">>,
   <<"download-failed", "aDownloadFailed">>,
   <<"download-succeeded", "aDownloadSucceeded">>,
   <<"download-cancelled", "aDownloadCancelled">>,
   <<"download-skipped", "aDownloadSkipped">>,
   <<"download-progress", "progressOfADownload">>,
   <<"download-media-try-increment", "downloadTryIncrementForDownload">>}

\* removals that forget the progress handler
RemovalsButProgress == Registrations \ {<<"download-progress", "progressOfADownload">>}

\* the removals of lines 216-230
Removals ==
  {<<"new-download-batch-started", "newDownloadBatchStarted">>,
   <<"downloads-cleared", "downloadsCleared">>,
   <<"download-started", "aDownloadStarted">>,
   <<"download-failed", "aDownloadFailed">>,
   <<"download-succeeded", "aDownloadSucceeded">>,
   <<"download-cancelled", "aDownloadCancelled">>,
   <<"download-skipped", "aDownloadSkipped">>,
   <<"download-progress", "progressOfADownload">>,
   <<"download-media-try-increment", "downloadTryIncrementForDownload">>}

ListenersOf(regs, s) == {[event |-> g[1], handler |-> g[2], subscriber |-> s] : g \in regs}

CallHandler(handler, n) ==
  CASE handler = "newDownloadBatchStarted" -> newDownloadBatchStarted(n)
    [] handler = "downloadsCleared" -> downloadsCleared(n)
    [] handler = "aDownloadStarted" -> aDownloadStarted(n)
    [] handler = "aDownloadFailed" -> aDownloadFailed(n)
    [] handler = "aDownloadSucceeded" -> aDownloadSucceeded(n)
    [] handler = "aDownloadCancelled" -> aDownloadCancelled(n)
    [] handler = "aDownloadSkipped" -> aDownloadSkipped(n)
    [] handler = "progressOfADownload" -> progressOfADownload(n)
    [] OTHER -> downloadTryIncrementForDownload(n)

\* an emitter that calls the handlers of the first connection only
HandlersForFirstOnly(s, event) ==
  {l \in listeners : l.event = event /\ l.subscriber = s /\ s = 1}

\* emitter.emit(event, ...): the listeners of connection s registered for event
HandlersFor(s, event) ==
  {l \in listeners : l.event = event /\ l.subscriber = s}

RECURSIVE CallHandlers(_, _)
\* every listener in hs is called with the notification and writes its frame
CallHandlers(hs, n) ==
  IF hs = {} THEN <<>>
  ELSE LET l == CHOOSE h \in hs : TRUE
       IN <<CallHandler(l.handler, n)>> \o CallHandlers(hs \ {l}, n)

RECURSIVE Written(_, _)
\* the frames the handlers of subscriber s write for the notifications ns
Written(s, ns) ==
  IF ns = <<>> THEN <<>>
  ELSE CallHandlers(HandlersFor(s, Head(ns).event), Head(ns)) \o Written(s, Tail(ns))

\* emitter.emit calls the registered handlers before the tracker call returns
Forward ==
  /\ frames' = IF listeners = {} THEN frames
               ELSE LET ns == Emitted
                    IN [s \in Subscribers |-> frames[s] \o Written(s, ns)]
  /\ UNCHANGED <<listeners, connection, postTraits, storeVars>>

\* SSEHandler(request, reply): the page-load frame, then the registrations.
\* Connections are numbered in the order they are made.
SSEHandler(s) ==
  /\ connection[s] = "none"
  /\ \A t \in Subscribers : t < s => connection[t] # "none"
  /\ connection' = [connection EXCEPT ![s] = "open"]
  /\ frames' = [frames EXCEPT ![s] = Append(@, PageLoadFrame)]
  /\ listeners' = listeners \cup ListenersOf(Registrations, s)
  /\ UNCHANGED <<dbVars, mediaFolders, directLink, trackerPosts, current, batch,
                 limit, pc, res, calls, promise, result, interfered, dropped,
                 postTraits, storeVars>>

\* request.raw.on('close', ...)
Close(s) ==
  /\ connection[s] = "open"
  /\ connection' = [connection EXCEPT ![s] = "closed"]
  /\ listeners' = listeners \ ListenersOf(Removals, s)
  /\ frames' = [frames EXCEPT ![s] = <<>>]
  /\ UNCHANGED <<dbVars, mediaFolders, directLink, trackerPosts, current, batch,
                 limit, pc, res, calls, promise, result, interfered, dropped,
                 postTraits, storeVars>>

Step ==
  \E r \in Runs, i \in 1..MaxBatch :
    \/ IncrementReturns(r, i)
    \/ IncrementFails(r, i)
    \/ FolderReturnsDirect(r, i)
    \/ FolderReturnsNoMatch(r, i)
    \/ FolderFails(r, i)
    \/ DownloadProgress(r, i)
    \/ DownloadReturns(r, i)
    \/ DownloadFails(r, i)
    \/ FlagReturns(r, i)
    \/ FlagFails(r, i)
    \/ LogReturns(r, i)

\* One batch, from any database content.
Next ==
  \/ \E ids \in DistinctSeqs(Posts, MaxBatch), n \in 1..MaxLimit :
       current = 0 /\ downloadPostsMedia(ids, n) /\ Forward
  \/ Step /\ Forward

Spec == Init /\ [][Next]_vars

\* Successive batches: the first post has one try left and a direct media link,
\* the second one try left and no media link, the others no try left.
InitBatches ==
  /\ Init
  /\ mediaDownloadTries = [p \in Posts |-> IF p \in {PostNames[1], PostNames[2]} THEN 2 ELSE 3]
  /\ directLink = Posts \ {PostNames[2]}

NextBatches ==
  \/ \E ids \in DistinctSeqs(Posts, MaxBatch), n \in 1..MaxLimit :
       downloadPostsMedia(ids, n) /\ Forward
  \/ Step /\ Forward

SpecBatches == InitBatches /\ [][NextBatches]_vars

\* One batch over posts of every category: the first post satisfies any of the
\* categorizer predicates (a text post with no url has no media link).
InitClassify ==
  /\ mediaDownloadTries = [p \in Posts |-> IF p \in {PostNames[1], PostNames[2]} THEN 2 ELSE 3]
  /\ mediaDownloaded = [p \in Posts |-> FALSE]
  /\ mediaFolders = {}
  /\ directLink \in SUBSET Posts
  /\ categories \in [Posts -> SUBSET OtherCategorizers]
  /\ \A p \in Posts :
       /\ p # PostNames[1] => categories[p] = {}
       /\ "isTextPostWithNoUrlInPost" \in categories[p] => p \notin directLink
  /\ trackerPosts = [p \in Posts |-> NoRecord]
  /\ current = 0
  /\ batch = [r \in Runs |-> <<>>]
  /\ limit = [r \in Runs |-> 1]
  /\ pc = [r \in Runs |-> <<>>]
  /\ res = [r \in Runs |-> <<>>]
  /\ calls = [r \in Runs |-> <<>>]
  /\ promise = [r \in Runs |-> "none"]
  /\ result = [r \in Runs |-> <<>>]
  /\ interfered = {}
  /\ dropped = {}
  /\ listeners = {}
  /\ connection = [s \in Subscribers |-> "none"]
  /\ frames = [s \in Subscribers |-> <<>>]
  /\ InitStores

NextClassify ==
  \/ \E ids \in DistinctSeqs(Posts, MaxShortBatch), n \in 1..MaxLimit :
       current = 0 /\ downloadPostsMedia(ids, n) /\ Forward
  \/ Step /\ Forward

SpecClassify == InitClassify /\ [][NextClassify]_vars

\* One batch watched over the server-sent-events route: connections open and
\* close at any point of the run.
InitSSE == InitBatches

NextSSE ==
  \/ \E s \in Subscribers : SSEHandler(s)
  \/ \E s \in Subscribers : Close(s)
  \/ \E ids \in DistinctSeqs(Posts, MaxShortBatch), n \in 1..MaxLimit :
       current = 0 /\ downloadPostsMedia(ids, n) /\ Forward
  \/ Step /\ Forward

SpecSSE == InitSSE /\ [][NextSSE]_vars

\* No batch of media downloads is submitted.
NoDownloads ==
  /\ mediaDownloadTries = [p \in Posts |-> 3]
  /\ mediaDownloaded = [p \in Posts |-> FALSE]
  /\ mediaFolders = {}
  /\ directLink = {}
  /\ trackerPosts = [p \in Posts |-> NoRecord]
  /\ current = 0
  /\ batch = [r \in Runs |-> <<>>]
  /\ limit = [r \in Runs |-> 1]
  /\ pc = [r \in Runs |-> <<>>]
  /\ res = [r \in Runs |-> <<>>]
  /\ calls = [r \in Runs |-> <<>>]
  /\ promise = [r \in Runs |-> "none"]
  /\ result = [r \in Runs |-> <<>>]
  /\ interfered = {}
  /\ dropped = {}
  /\ categories = [p \in Posts |-> {}]
  /\ listeners = {}
  /\ connection = [s \in Subscribers |-> "none"]
  /\ frames = [s \in Subscribers |-> <<>>]

\* Calls of the subscription operations of db, from any database in which
\* every subscribed subreddit is in the master list and has its table.
InitSubs ==
  /\ NoDownloads
  /\ IdleComments
  /\ userSubreddits \in [Users -> SUBSET StoredSubs]
  /\ masterList = UNION {userSubreddits[u] : u \in Users}
  /\ subredditTables = masterList
  /\ subredditTablesMap = masterList
  /\ writer = 0
  /\ dbCall = [c \in DbCalls |-> IdleCall]

SubsStep ==
  \E c \in DbCalls :
    \/ GetUserSubredditsReturns(c)
    \/ UserUpdateReturns(c)
    \/ removeSubFromUser(c)
    \/ RemoveTransactionCommits(c)
    \/ RemoveThen(c)
    \/ addSingleSubredditToMasterList(c)
    \/ AddUserSubredditReads(c)
    \/ AddUserSubredditUpdates(c)
    \/ createAndSyncSubredditTable(c)
    \/ AddSubredditCommits(c)
    \/ AddSubredditFails(c)

OnlySubs == UNCHANGED <<downloadVars, commentsVars>>

NextSubs ==
  \/ \E c \in DbCalls, u \in Users, subs \in SUBSET StoredSubs :
       subs # {} /\ batchAddUserSubreddits(c, u, subs) /\ OnlySubs
  \/ \E c \in DbCalls, u \in Users, sub \in TypedSubs :
       removeUserSubreddit(c, u, sub) /\ OnlySubs
  \/ \E c \in DbCalls, u \in Users, sub \in StoredSubs :
       addSubreddit(c, u, sub) /\ OnlySubs
  \/ SubsStep /\ OnlySubs

SpecSubs == InitSubs /\ [][NextSubs]_vars

\* Comments are saved and read, from an empty comments store.
InitComments ==
  /\ NoDownloads
  /\ IdleSubs
  /\ IdleComments

OnlyComments == UNCHANGED <<downloadVars, subsVars>>

NextComments ==
  \/ \E posts \in SUBSET CommentedPosts : \E postsComments \in [posts -> CommentsStrings] :
       batchSaveComments(postsComments) /\ OnlyComments
  \/ FlagsUpdateReturns /\ OnlyComments
  \/ FlagsUpdateFails /\ OnlyComments
  \/ PutReturns /\ OnlyComments
  \/ PutFails /\ OnlyComments
  \/ \E postId \in CommentedPosts : GetPostComments(postId) /\ OnlyComments

SpecComments == InitComments /\ [][NextComments]_vars

(***************************************************************************)
(* Vocabulary of the properties                                            *)
(***************************************************************************)
\* a run whose promise the caller still holds
Live(r) == promise[r] \in {"pending", "resolved", "rejected"}

TerminalCalls == {"succeed", "fail", "cancel", "skip"}

RECURSIVE TrackerCalls(_)
\* the tracker transitions among the calls of a callback
TrackerCalls(c) ==
  IF c = <<>> THEN <<>>
  ELSE IF Head(c) \in {"execute", "progress"} THEN TrackerCalls(Tail(c))
       ELSE <<Head(c)>> \o TrackerCalls(Tail(c))

Prefixes(path) == {SubSeq(path, 1, k) : k \in 0..Len(path)}

LifecyclePaths ==
  UNION {Prefixes(<<"incrementTry", "start", "succeed">>),
         Prefixes(<<"incrementTry", "start", "fail">>),
         Prefixes(<<"incrementTry", "start", "skip">>),
         Prefixes(<<"cancel">>)}

IdsOf(r) == [i \in DOMAIN batch[r] |-> batch[r][i].id]

StateOf(postId) == State(trackerPosts[postId])

StartedRecords ==
  {p \in Posts : HasRecord(trackerPosts, p) /\ StateOf(p) = "started"}

\* the identifiers, in submission order, of the posts of run r for which
\* `succeed` was recorded
SucceededInOrder(r) ==
  SeqFilterIdx(IdsOf(r),
               {batch[r][i].id : i \in {j \in DOMAIN batch[r] : "succeed" \in Range(calls[r][j])}},
               1)

\* the identifiers, in submission order, the callbacks of run r returned
ReturnedIdsInOrder(r) ==
  SeqFilterIdx(IdsOf(r),
               {batch[r][i].id : i \in {j \in DOMAIN batch[r] : res[r][j] = batch[r][j].id}},
               1)

(***************************************************************************)
(* C1: while a batch runs with numberMediaDownloadsAtOnce = N, at most N   *)
(* of its callbacks are unsettled, at most N executors are in flight and   *)
(* at most N tracker records are in the `started` state, also for batches  *)
(* longer than N.                                                          *)
(***************************************************************************)
C1_BoundedConcurrency ==
  \A r \in Runs : Live(r) =>
    /\ Cardinality(InFlight(r)) <= limit[r]
    /\ Cardinality({i \in DOMAIN pc[r] : pc[r][i] = "awaitDownload"}) <= limit[r]
    /\ Cardinality(StartedRecords) <= limit[r]

\* a batch of three with N = 2: two posts started, the third still queued
C1_Witness ==
  /\ Live(1) /\ limit[1] = 2 /\ Len(batch[1]) > limit[1]
  /\ Cardinality(StartedRecords) = 2
  /\ \E i \in DOMAIN pc[1] : pc[1][i] = "queued" /\ StateOf(batch[1][i].id) = "queued"

C3_ResultIsSucceededInOrder ==
  \A r \in Runs : promise[r] = "resolved" => result[r] = SucceededInOrder(r)

(***************************************************************************)
(* C4: when the executor failed for a post, the tracker shows that post    *)
(* `failed` with a non-empty error, and once no callback of the batch is   *)
(* in flight every post is in a terminal state and the promise has         *)
(* resolved with the identifiers of the posts that succeeded.              *)
(***************************************************************************)
C4_ExecutorFailureIsolated ==
  \A r \in Runs : Live(r) =>
    \A i \in DOMAIN batch[r] :
      res[r][i] = DownloadError =>
        /\ StateOf(batch[r][i].id) = "failed"
        /\ trackerPosts[batch[r][i].id].downloadError # ""
        /\ InFlight(r) = {} =>
             /\ \A j \in DOMAIN batch[r] : StateOf(batch[r][j].id) \in TerminalStates
             /\ promise[r] = "resolved"
             /\ result[r] = ReturnedIdsInOrder(r)

(***************************************************************************)
(* C5: no per-post error rejects the promise downloadPostsMedia returned.  *)
(***************************************************************************)
C5_NoPerPostErrorRejects ==
  \A r \in Runs : promise[r] # "rejected" /\ \A i \in DOMAIN pc[r] : pc[r][i] # "rejected"

(***************************************************************************)
(* C6: every post of a submitted batch reaches a terminal tracker state    *)
(* and the promise settles.  With every call returning or failing, a batch *)
(* comes to a state where none of its callbacks is in flight; there every  *)
(* post must be terminal and the promise settled.                          *)
(***************************************************************************)
C6_AllPostsTerminate ==
  \A r \in Runs : (Live(r) /\ InFlight(r) = {}) =>
    /\ promise[r] # "pending"
    /\ \A i \in DOMAIN batch[r] : StateOf(batch[r][i].id) \in TerminalStates

(***************************************************************************)
(* C7: within one batch run a post receives at most one terminal           *)
(* transition (succeed, fail, cancel or skip).                             *)
(***************************************************************************)
C7_OneTerminalTransition ==
  \A r \in Runs : \A i \in DOMAIN calls[r] :
    Cardinality({k \in DOMAIN calls[r][i] : calls[r][i][k] \in TerminalCalls}) <= 1

(***************************************************************************)
(* C8: the tracker transitions recorded for a post in a batch run form a   *)
(* prefix of incrementTry, start, {succeed | fail | skip}, or of cancel.   *)
(***************************************************************************)
C8_LifecyclePath ==
  \A r \in Runs : \A i \in DOMAIN calls[r] :
    TrackerCalls(calls[r][i]) \in LifecyclePaths

(***************************************************************************)
(* C9: a new batch replaces the tracker table before any of its posts is   *)
(* processed: the table holds a record for exactly the posts of the new    *)
(* batch, a post not yet handed to the callback has a fresh `queued`       *)
(* record, and a record shows only the transitions of the new run.         *)
(***************************************************************************)
FlagOfCall(call) ==
  CASE call = "incrementTry" -> "downloadTryIncremented"
    [] call = "start" -> "downloadStarted"
    [] call = "succeed" -> "downloadSucceeded"
    [] call = "fail" -> "downloadFailed"
    [] call = "cancel" -> "downloadCancelled"
    [] OTHER -> "downloadSkipped"

C9_InitializeReplacesTable ==
  current > 0 =>
    /\ \A p \in Posts : HasRecord(trackerPosts, p) <=> p \in PostIds(current)
    /\ \A i \in DOMAIN batch[current] :
         LET post == batch[current][i] IN
         post.id \notin interfered =>
           /\ pc[current][i] = "queued" => trackerPosts[post.id] = FreshRecord(post)
           /\ trackerPosts[post.id].flags =
                {FlagOfCall(c) : c \in Range(TrackerCalls(calls[current][i]))}

\* the second batch is under way; a post of the first batch is not in it and has
\* no record; a post the first batch processed is in it, still waits for a slot
\* and has a fresh record
C9_Witness ==
  /\ current = 2
  /\ \E i \in DOMAIN batch[1] :
       /\ batch[1][i].id \notin PostIds(2)
       /\ trackerPosts[batch[1][i].id] = NoRecord
  /\ \E j \in DOMAIN batch[2] :
       /\ pc[2][j] = "queued"
       /\ batch[2][j].id \in PostIds(1) \cap mediaFolders
       /\ trackerPosts[batch[2][j].id] = FreshRecord(batch[2][j])

(***************************************************************************)
(* C10: once a new batch started, a step of a callback of the superseded   *)
(* batch for a post that is not in the new batch leaves the tracker table  *)
(* unchanged, and the table's keys stay the posts of the new batch.        *)
(***************************************************************************)
KeysAreCurrentBatch ==
  current > 0 => {p \in Posts : HasRecord(trackerPosts, p)} = PostIds(current)

StaleStepKeepsTable ==
  current' = current =>
    \A q \in Runs : \A i \in DOMAIN pc[q] :
      (q < current /\ pc'[q][i] # pc[q][i] /\ batch[q][i].id \notin PostIds(current))
        => trackerPosts' = trackerPosts

C10_StaleUpdatesDropped ==
  [](KeysAreCurrentBatch) /\ [][StaleStepKeepsTable]_vars

\* a callback of the first batch called the tracker for a post that the second
\* batch does not hold
C10_Witness ==
  /\ current = 2
  /\ dropped # {}
  /\ dropped \cap PostIds(2) = {}
  /\ PostIds(2) # {}

(***************************************************************************)
(* C11: the tracker table maps a post identifier to at most one record,    *)
(* and the record a post has when a new batch starts is built from the     *)
(* post as handed in and the calls of the new run alone: no flag, error,   *)
(* reason, try count or progress number of an earlier record remains.      *)
(***************************************************************************)
OneRecordPerPost ==
  /\ DOMAIN trackerPosts = Posts
  /\ current > 0 =>
       Cardinality({p \in Posts : HasRecord(trackerPosts, p)}) = Len(batch[current])

BatchStartGivesFreshRecords ==
  current' # current =>
    \A i \in DOMAIN batch'[current'] :
      LET post == batch'[current'][i]
          rec == trackerPosts'[post.id]
          made == calls'[current'][i]
      IN /\ HasRecord(trackerPosts', post.id)
         /\ rec.flags = {FlagOfCall(c) : c \in Range(made)}
         /\ rec.downloadError = ""
         /\ rec.downloadProgress = 0
         /\ rec.reason = IF made = <<"cancel">> THEN TooManyTriesReason ELSE ""
         /\ rec.mediaDownloadTries =
              post.mediaDownloadTries + (IF made = <<"incrementTry">> THEN 1 ELSE 0)
         /\ pc'[current'][i] = "queued" => rec = FreshRecord(post)

C11_OneFreshRecordPerPost ==
  [](OneRecordPerPost) /\ [][BatchStartGivesFreshRecords]_vars

\* the first batch ended with a failed download of a post; the second batch holds
\* that post again and its record shows the cancellation of the second run only
C11_Witness ==
  /\ current = 2
  /\ \A i \in DOMAIN pc[1] : pc[1][i] = "gone"
  /\ \E j \in DOMAIN batch[2] :
       LET p == batch[2][j].id IN
       /\ p \in PostIds(1) \cap directLink \cap mediaFolders
       /\ ~mediaDownloaded[p]
       /\ trackerPosts[p].flags = {"downloadCancelled"}
       /\ trackerPosts[p].downloadError = ""

(***************************************************************************)
(* The classification the posts are meant to get: a chain of predicates    *)
(* tried top to bottom, the first match decides, the last pair matches     *)
(* every post.                                                             *)
(***************************************************************************)
SkipTextPost == "skip: Is a text-post with no url in post"
SkipCrossPost == "skip: Is a cross-post with no direct download url"
SkipNoMatch == "skip: No media match for download."

PriorityChain ==
  << <<"isDirectMediaLink", "downloadDirectMediaLink">>,
     <<"isVideoPost", "video">>,
     <<"isTextPostWithNoUrlInPost", SkipTextPost>>,
     <<"isNotRedditUrl", "saveWebPage">>,
     <<"isCrossPost", SkipCrossPost>>,
     <<"T", SkipNoMatch>> >>

\* the callback at index i of run r has classified its post
Classified(r, i) == "start" \in Range(calls[r][i])

(***************************************************************************)
(* C12: the media-downloaded flag of a post is true only if a callback     *)
(* invoked the executor for it and recorded `succeeded`, and recorded no   *)
(* cancel, skip or fail before the flag was written.                       *)
(***************************************************************************)
C12_FlagOnlyAfterTransfer ==
  \A p \in Posts :
    mediaDownloaded[p] =>
      \E r \in Runs : \E i \in DOMAIN batch[r] :
        /\ batch[r][i].id = p
        /\ "execute" \in Range(calls[r][i])
        /\ "succeed" \in Range(calls[r][i])
        /\ Range(calls[r][i]) \cap {"cancel", "skip"} = {}

(***************************************************************************)
(* C15: every post is classified to a strategy, and a post that matches    *)
(* none of the specific predicates is skipped with the reason "No media    *)
(* match for download.": no executor runs, its record ends `skipped` and   *)
(* its identifier is not in the result.                                    *)
(***************************************************************************)
C15_ClassifierTotal ==
  \A r \in Runs : Live(r) =>
    \A i \in DOMAIN batch[r] :
      LET post == batch[r][i] IN
      Classified(r, i) =>
        /\ cond(CondPairs, post) # Undefined
        /\ cond(PriorityChain, post) = SkipNoMatch =>
             /\ Range(calls[r][i]) \cap {"execute", "succeed"} = {}
             /\ pc[r][i] = "done" =>
                  /\ StateOf(post.id) = "skipped"
                  /\ trackerPosts[post.id].reason = "No media match for download."
             /\ promise[r] = "resolved" => post.id \notin Range(result[r])

(***************************************************************************)
(* C16: a post classified as a text post with no url is skipped with the   *)
(* reason "Is a text-post with no url in post": no media folder is made    *)
(* for it, its record ends `skipped` and its identifier is not in the      *)
(* result.                                                                 *)
(***************************************************************************)
C16_TextPostSkipped ==
  \A r \in Runs : Live(r) =>
    \A i \in DOMAIN batch[r] :
      LET post == batch[r][i] IN
      (cond(PriorityChain, post) = SkipTextPost /\ ~tooManyDownloadTries(post)) =>
        /\ post.id \notin mediaFolders
        /\ pc[r][i] = "done" =>
             /\ StateOf(post.id) = "skipped"
             /\ trackerPosts[post.id].reason = "Is a text-post with no url in post"
        /\ promise[r] = "resolved" => post.id \notin Range(result[r])

(***************************************************************************)
(* C17: a post gets the strategy of the first predicate of the chain it    *)
(* satisfies; a cross-post that is a direct media link goes to the direct  *)
(* download, and classifying the post again gives the same strategy.       *)
(***************************************************************************)
C17_FirstMatchWins ==
  \A r \in Runs : Live(r) =>
    \A i \in DOMAIN batch[r] :
      LET post == batch[r][i] IN
      Classified(r, i) =>
        /\ Cardinality({q \in 1..(Len(PriorityChain) - 1) :
                          Satisfies(PriorityChain[q][1], post)}) > 1
             => cond(CondPairs, post) = cond(PriorityChain, post)
        /\ (isCrossPost(post) /\ isDirectMediaLink(post)) => "execute" \in Range(calls[r][i])
        /\ cond(CondPairs, post) = cond(CondPairs, batch[r][i])

(***************************************************************************)
(* C13: over successive batches, each handed the try counts the database   *)
(* holds when it starts, the persisted try count of a post never           *)
(* decreases and never exceeds 3, and a post handed in with a count of 3   *)
(* or more is cancelled by that run.                                       *)
(***************************************************************************)
TriesCapped ==
  /\ \A p \in Posts : mediaDownloadTries[p] <= 3
  /\ \A r \in Runs : Live(r) =>
       \A i \in DOMAIN batch[r] :
         (batch[r][i].mediaDownloadTries >= 3 /\ pc[r][i] # "queued") =>
           /\ calls[r][i] = <<"cancel">>
           /\ mediaDownloadTries[batch[r][i].id] >= batch[r][i].mediaDownloadTries

TriesNeverDecrease ==
  \A p \in Posts : mediaDownloadTries'[p] >= mediaDownloadTries[p]

C13_TriesMonotoneAndCapped ==
  [](TriesCapped) /\ [][TriesNeverDecrease]_vars

(***************************************************************************)
(* C14: within one batch run the callback of a post invokes the executor   *)
(* at most once and starts the post at most once, and the persisted try    *)
(* count of a post that was not cancelled is one above the count it was    *)
(* handed in with as soon as the post is started, whatever its outcome.    *)
(***************************************************************************)
Occurrences(c, call) == Cardinality({k \in DOMAIN c : c[k] = call})

Open(s) == connection[s] = "open"

PageLoadComesFirst ==
  \A s \in Subscribers : Open(s) =>
    /\ frames[s] # <<>>
    /\ frames[s][1].event = "page-load"
    /\ \A k \in 2..Len(frames[s]) : frames[s][k].event # "page-load"

AttachReplaysTable ==
  \A s \in Subscribers :
    (connection[s] = "none" /\ connection'[s] = "open") =>
      /\ Len(frames'[s]) = 1
      /\ DOMAIN frames'[s][1].data = {p \in Posts : HasRecord(trackerPosts, p)}
      /\ \A p \in DOMAIN frames'[s][1].data :
           /\ frames'[s][1].data[p].id = String(p)
           /\ ("downloadStarted" \in DOMAIN frames'[s][1].data[p])
                <=> "downloadStarted" \in trackerPosts[p].flags

C18_PageLoadFirst ==
  [](PageLoadComesFirst) /\ [][AttachReplaysTable]_vars

\* a connection made while a download was under way: its page-load frame shows
\* the started post and live frames followed
C18_Witness ==
  /\ Open(1)
  /\ Len(frames[1]) > 1
  /\ \E p \in DOMAIN frames[1][1].data : "downloadStarted" \in DOMAIN frames[1][1].data[p]

(***************************************************************************)
(* C19: what a connection received reconstructs the tracker table.  An     *)
(* observer starts from the records of the page-load frame and applies     *)
(* each later frame, by its event name, to the record of its postId; the   *)
(* outcome is compared with the trimmed table on the properties present,   *)
(* the reasons and the progress number.                                    *)
(***************************************************************************)
WithProp(download, key, value) ==
  [k \in DOMAIN download \cup {key} |-> IF k = key THEN value ELSE download[k]]

ApplyToRecord(download, frame) ==
  CASE frame.event = "download-started" ->
         WithProp(download, "downloadStarted", Boolean(TRUE))
    [] frame.event = "download-succeeded" ->
         WithProp(download, "downloadSucceeded", Boolean(TRUE))
    [] frame.event = "download-failed" ->
         WithProp(WithProp(download, "downloadFailed", Boolean(TRUE)),
                  "downloadError", frame.data.err)
    [] frame.event = "download-cancelled" ->
         WithProp(WithProp(download, "downloadCancelled", Boolean(TRUE)),
                  "downloadCancellationReason", String(frame.data.reason))
    [] frame.event = "download-skipped" ->
         WithProp(WithProp(download, "downloadSkipped", Boolean(TRUE)),
                  "downloadSkippedReason",
                  IF "reason" \in DOMAIN frame.data THEN String(frame.data.reason)
                  ELSE UndefinedValue)
    [] frame.event = "download-progress" ->
         WithProp(WithProp(WithProp(WithProp(download,
           "downloadFileSize", Number(frame.data.downloadFileSize)),
           "downloadedBytes", Number(frame.data.downloadedBytes)),
           "downloadSpeed", Number(frame.data.downloadSpeed)),
           "downloadProgress", Number(frame.data.downloadProgress))
    [] OTHER -> download

ApplyFrame(view, frame) ==
  CASE frame.event \in {"page-load", "new-download-batch-started"} -> frame.data
    [] frame.event = "downloads-cleared" -> [p \in {} |-> p]
    [] OTHER ->
         [p \in DOMAIN view |->
            IF p = frame.data.postId THEN ApplyToRecord(view[p], frame) ELSE view[p]]

RECURSIVE Replay(_, _)
Replay(view, fs) ==
  IF fs = <<>> THEN view ELSE Replay(ApplyFrame(view, Head(fs)), Tail(fs))

\* what is compared of a record: its properties, with the error taken as present
Observed(view) ==
  [p \in DOMAIN view |->
     [k \in DOMAIN view[p] |-> IF k = "downloadError" THEN "present" ELSE view[p][k]]]

C19_FramesReconstructTable ==
  \A s \in Subscribers : Open(s) =>
    Observed(Replay([p \in {} |-> p], frames[s]))
      = Observed(convertDownloadsMapForFrontend(trackerPosts))

(***************************************************************************)
(* C20: the handlers registered on the emitter are the nine handlers, one  *)
(* per event type, of each open connection and nothing else; nothing is    *)
(* written to a connection once it is closed.                              *)
(***************************************************************************)
EventTypes ==
  {"new-download-batch-started", "downloads-cleared", "download-started",
   "download-failed", "download-succeeded", "download-cancelled",
   "download-skipped", "download-progress", "download-media-try-increment"}

NineHandlersPerOpenConnection ==
  /\ \A l \in listeners : Open(l.subscriber)
  /\ \A s \in Subscribers : Open(s) =>
       /\ Cardinality({l \in listeners : l.subscriber = s}) = 9
       /\ \A e \in EventTypes :
            Cardinality({l \in listeners : l.subscriber = s /\ l.event = e}) = 1

NothingWrittenAfterClose ==
  \A s \in Subscribers : connection[s] = "closed" => frames'[s] = frames[s]

C20_NoLeakedListeners ==
  [](NineHandlersPerOpenConnection) /\ [][NothingWrittenAfterClose]_vars

\* the first connection is closed, the second is open and receives frames
C20_Witness ==
  /\ connection[1] = "closed"
  /\ Open(2)
  /\ Cardinality(listeners) = 9
  /\ Len(frames[2]) > 1
  /\ promise[1] = "pending"

(***************************************************************************)
(* C21: a frame carries the event name of the notification it forwards.    *)
(* The frames a step adds to an open connection are, one for one and in    *)
(* order, the notifications of that step under their own names; a          *)
(* `download-progress` notification arrives with its four numbers.         *)
(***************************************************************************)
\* the frames the step added to the stream of subscriber s
Added(s) == SubSeq(frames'[s], Len(frames[s]) + 1, Len(frames'[s]))

FramesKeepEventNames ==
  \A s \in Subscribers :
    (Open(s) /\ connection'[s] = "open") =>
      /\ Len(Added(s)) = Len(Emitted)
      /\ \A k \in DOMAIN Added(s) :
           /\ Added(s)[k].event = Emitted[k].event
           /\ Emitted[k].event = "download-progress" =>
                Added(s)[k].data =
                  [postId |-> Emitted[k].postId,
                   downloadFileSize |-> Emitted[k].downloadFileSize,
                   downloadedBytes |-> Emitted[k].downloadedBytes,
                   downloadSpeed |-> Emitted[k].downloadSpeed,
                   downloadProgress |-> Emitted[k].downloadProgress]

C21_EventNamesPreserved == [][FramesKeepEventNames]_vars

(***************************************************************************)
(* C22: an error attached to a post reaches the observer as a string, in   *)
(* the records of the snapshot frames and in `download-failed` frames,     *)
(* never as an Error object.                                               *)
(***************************************************************************)
SnapshotEvents == {"page-load", "new-download-batch-started"}

C22_ErrorsAreStrings ==
  \A s \in Subscribers : \A k \in DOMAIN frames[s] :
    LET frame == frames[s][k] IN
    /\ frame.event \in SnapshotEvents =>
         \A p \in DOMAIN frame.data :
           "downloadError" \in DOMAIN frame.data[p] =>
             frame.data[p].downloadError.type = "string"
    /\ frame.event = "download-failed" => frame.data.err.type = "string"

(***************************************************************************)
(* C23: a record of a snapshot frame has only properties of the observer   *)
(* list, none of them an empty string, a number <= 0, false, null or       *)
(* undefined; a property of the tracker record that has data is in the     *)
(* frame with its value.                                                   *)
(***************************************************************************)
ObserverFields ==
  {"id", "url", "downloadFailed", "downloadError", "downloadCancelled",
   "downloadCancellationReason", "downloadSkipped", "downloadSkippedReason",
   "downloadStarted", "downloadSucceeded", "downloadProgress", "downloadSpeed",
   "downloadedBytes", "downloadFileSize"}

NoData(value) ==
  \/ value.type = "string" /\ value.val = ""
  \/ value.type = "number" /\ value.val <= 0
  \/ value.type = "boolean" /\ value.val = FALSE
  \/ value.type = "undefined"

SnapshotsAreTrimmed ==
  \A s \in Subscribers : \A k \in DOMAIN frames[s] :
    frames[s][k].event \in SnapshotEvents =>
      \A p \in DOMAIN frames[s][k].data :
        LET download == frames[s][k].data[p] IN
        /\ DOMAIN download \subseteq ObserverFields
        /\ \A key \in DOMAIN download : ~NoData(download[key])

HasProp(download, key, value) == key \in DOMAIN download /\ download[key] = value

PageLoadKeepsData ==
  \A s \in Subscribers :
    (connection[s] = "none" /\ connection'[s] = "open") =>
      \A p \in {q \in Posts : HasRecord(trackerPosts, q)} :
        LET rec == trackerPosts[p]
            download == frames'[s][1].data[p]
        IN /\ HasProp(download, "id", String(p))
           /\ \A flag \in Flags \ {"downloadTryIncremented"} :
                flag \in rec.flags => HasProp(download, flag, Boolean(TRUE))
           /\ rec.downloadError # "" => "downloadError" \in DOMAIN download
           /\ "downloadCancelled" \in rec.flags =>
                HasProp(download, "downloadCancellationReason", String(rec.reason))
           /\ rec.downloadProgress > 0 =>
                /\ HasProp(download, "downloadProgress", Number(rec.downloadProgress))
                /\ HasProp(download, "downloadSpeed", Number(rec.downloadSpeed))
                /\ HasProp(download, "downloadedBytes", Number(rec.downloadedBytes))
                /\ HasProp(download, "downloadFileSize", Number(rec.downloadFileSize))

C23_SnapshotRecordsTrimmed ==
  [](SnapshotsAreTrimmed) /\ [][PageLoadKeepsData]_vars

\* a page-load frame with the record of a download in progress, next to a
\* record that is still queued and holds its id only
C23_Witness ==
  \E s \in Subscribers :
    /\ Open(s)
    /\ \E p, q \in DOMAIN frames[s][1].data :
         /\ {"downloadStarted", "downloadProgress", "downloadFileSize"}
              \subseteq DOMAIN frames[s][1].data[p]
         /\ "downloadFailed" \notin DOMAIN frames[s][1].data[p]
         /\ DOMAIN frames[s][1].data[q] = {"id"}

(***************************************************************************)
(* C24: a post handed in with a try count >= 3 leaves the database and the *)
(* filesystem as they were: its persisted try count is the one it was      *)
(* handed in with, its media-downloaded flag is not written and it has no  *)
(* media folder.                                                           *)
(***************************************************************************)
C24_CancelledPostPersistsNothing ==
  \A r \in Runs : Live(r) =>
    \A i \in DOMAIN batch[r] :
      LET post == batch[r][i] IN
      post.mediaDownloadTries >= 3 =>
        /\ mediaDownloadTries[post.id] = post.mediaDownloadTries
        /\ ~mediaDownloaded[post.id]
        /\ post.id \notin mediaFolders

\* a resolved batch that cancelled one post and downloaded another
C24_Witness ==
  /\ promise[1] = "resolved"
  /\ \E i, j \in DOMAIN batch[1] :
       /\ calls[1][i] = <<"cancel">>
       /\ batch[1][i].id \notin mediaFolders
       /\ mediaDownloaded[batch[1][j].id]
       /\ batch[1][j].id \in mediaFolders

(***************************************************************************)
(* C25: for a post that is not cancelled the increment of the try count is *)
(* persisted before the tracker records `incrementTry`, the folder exists  *)
(* before the tracker records `start`, and the executor runs after         *)
(* `start`.                                                                *)
(***************************************************************************)
C25_PersistBeforeTrackerIncrement ==
  \A r \in Runs : Live(r) =>
    \A i \in DOMAIN batch[r] :
      LET post == batch[r][i]
          made == calls[r][i]
      IN /\ "incrementTry" \in Range(made) =>
              mediaDownloadTries[post.id] > post.mediaDownloadTries
         /\ "start" \in Range(made) =>
              /\ post.id \in mediaFolders
              /\ made[1] = "incrementTry" /\ made[2] = "start"
         /\ "execute" \in Range(made) => made[3] = "execute"

(***************************************************************************)
(* C26: posts are handed to processing in submission order: a post has no  *)
(* tracker transition before every post ahead of it in the batch has had   *)
(* its first one.                                                          *)
(***************************************************************************)
C26_AdmittedInSubmissionOrder ==
  \A r \in Runs : Live(r) =>
    \A i, j \in DOMAIN batch[r] :
      (i < j /\ calls[r][j] # <<>>) => calls[r][i] # <<>>

\* a post finished while a post ahead of it in the batch is still in flight
C26_Witness ==
  \E i, j \in DOMAIN batch[1] :
    /\ i < j
    /\ pc[1][i] \in Awaiting
    /\ pc[1][j] = "done"
    /\ Range(calls[1][j]) \cap {"succeed", "fail"} # {}

(***************************************************************************)
(* C27: a post with an exhausted retry budget takes no concurrency slot:   *)
(* while the batch runs it is never left waiting for a slot, and a post    *)
(* that can be downloaded waits only while N other posts are in flight.    *)
(***************************************************************************)
C27_CancelNeedsNoSlot ==
  \A r \in Runs : promise[r] = "pending" =>
    \A i \in DOMAIN batch[r] :
      pc[r][i] = "queued" =>
        /\ batch[r][i].mediaDownloadTries < 3
        /\ Cardinality(InFlight(r)) = limit[r]

(***************************************************************************)
(* C28: a download that failed because the host is offline is handled as   *)
(* any failure: the tracker shows the post `failed` with that error while   *)
(* the logger still runs and afterwards, the post is not in the resolved   *)
(* list, and when its callback returns the batch goes on: the promise does *)
(* not reject and the next waiting post is admitted.                       *)
(***************************************************************************)
OfflineFailureRecorded ==
  \A r \in Runs : Live(r) =>
    \A i \in DOMAIN batch[r] :
      res[r][i] = OfflineError =>
        /\ pc[r][i] \in {"awaitLog", "done"}
        /\ StateOf(batch[r][i].id) = "failed"
        /\ trackerPosts[batch[r][i].id].downloadError = OfflineError
        /\ promise[r] = "resolved" => batch[r][i].id \notin Range(result[r])

BatchContinuesAfterOffline ==
  \A r \in Runs : \A i \in DOMAIN pc[r] :
    (/\ promise[r] = "pending"
     /\ res[r][i] = OfflineError
     /\ pc[r][i] = "awaitLog" /\ pc'[r][i] = "done")
      => /\ promise'[r] \in {"pending", "resolved"}
         /\ \A j \in DOMAIN pc[r] :
              (pc[r][j] = "queued" /\ \A k \in 1..(j - 1) : pc[r][k] # "queued")
                => pc'[r][j] # "queued"

C28_OfflineFailureIsAFailure ==
  [](OfflineFailureRecorded) /\ [][BatchContinuesAfterOffline]_vars

\* a resolved batch in which one post failed offline and a later post, admitted
\* after it, was downloaded
C28_Witness ==
  /\ promise[1] = "resolved"
  /\ limit[1] = 1
  /\ \E i, j \in DOMAIN batch[1] :
       /\ i < j
       /\ res[1][i] = OfflineError
       /\ StateOf(batch[1][i].id) = "failed"
       /\ batch[1][j].id \in Range(result[1])

(***************************************************************************)
(* C29: every notification the tracker emits in a step is written exactly  *)
(* once to every connection that is attached, and each connection gets its *)
(* frames in the order of the notifications; a connection that is not      *)
(* attached gets nothing.                                                  *)
(***************************************************************************)
FrameIsFor(frame, n) ==
  /\ (frame.event = n.event \/ n.event = "download-progress")
  /\ IF n.event = "new-download-batch-started"
     THEN frame.data = convertDownloadsMapForFrontend(n.downloads)
     ELSE frame.data.postId = n.postId

EachNotificationOncePerSubscriber ==
  \A s \in Subscribers :
    IF Open(s) /\ connection'[s] = "open"
    THEN /\ Len(Added(s)) = Len(Emitted)
         /\ \A k \in DOMAIN Added(s) : FrameIsFor(Added(s)[k], Emitted[k])
    ELSE connection[s] = connection'[s] => frames'[s] = frames[s]

C29_EverySubscriberGetsEveryNotification ==
  [][EachNotificationOncePerSubscriber]_vars

\* two connections are attached, the second one later than the first, and the
\* second has received a step's two notifications after its page-load frame
C29_Witness ==
  /\ \A s \in Subscribers : Open(s)
  /\ Len(frames[2]) >= 3
  /\ Len(frames[1]) > Len(frames[2])
  /\ frames[2][2].event # frames[2][3].event

(***************************************************************************)
(* C30: when the promise of a batch has resolved, the media-downloaded     *)
(* flag of every post in the resolved list is persisted as true, and a     *)
(* post whose flag write failed is not in the list.                        *)
(***************************************************************************)
FlagWriteFailed(r, i) ==
  /\ "succeed" \in Range(calls[r][i])
  /\ res[r][i] = DatabaseError

EmptyTable == [p \in Posts |-> NoRecord]

EmptyBatchStart ==
  (current' # current /\ batch'[current'] = <<>>) =>
    /\ trackerPosts' = EmptyTable
    /\ Emitted = <<[event |-> "new-download-batch-started", downloads |-> EmptyTable]>>
    /\ UNCHANGED <<mediaDownloadTries, mediaDownloaded, mediaFolders>>
    /\ calls'[current'] = <<>>
    /\ promise'[current'] = "resolved"
    /\ result'[current'] = <<>>

EmptyBatchIsResolved ==
  \A r \in Runs : (Live(r) /\ batch[r] = <<>>) =>
    /\ promise[r] = "resolved"
    /\ result[r] = <<>>

C31_EmptyBatch == [](EmptyBatchIsResolved) /\ [][EmptyBatchStart]_vars

\* the second batch was empty: it has resolved, and the records and the result
\* of the first batch, which downloaded a post, are gone
C31_Witness ==
  /\ current = 2
  /\ batch[2] = <<>>
  /\ promise[2] = "resolved"
  /\ trackerPosts = EmptyTable
  /\ \E p \in PostIds(1) : mediaDownloaded[p]

(***************************************************************************)
(* Property vocabulary of the subscription operations                      *)
(***************************************************************************)
Settled(c) == dbCall[c].pc \in {"done", "rejected"}

TheSub(c) == CHOOSE sub \in dbCall[c].subreddits : TRUE

SubscribedSubsHaveTables ==
  \A u \in Users : \A sub \in userSubreddits[u] : toLowerCase(sub) \in subredditTables

\* the only call made is call c
AloneCall(c) == \A d \in DbCalls \ {c} : dbCall[d].op = "none"

(***************************************************************************)
(* C32: removeUserSubreddit takes the lower-cased subreddit off the user's *)
(* list and drops the subreddit's table exactly when no other user is      *)
(* subscribed to it; and when a removeUserSubreddit by one user and an     *)
(* addSubreddit of the same subreddit by another user have both settled,   *)
(* in whatever way they interleaved, every subreddit some user is          *)
(* subscribed to has its table.                                            *)
(***************************************************************************)
RemoveAloneIsExact ==
  \A c \in DbCalls :
    (dbCall[c].op = "removeUserSubreddit" /\ dbCall[c].pc = "done" /\ AloneCall(c)) =>
      /\ TheSub(c) \notin userSubreddits[dbCall[c].userName]
      /\ TheSub(c) \in subredditTables <=>
           \E u \in Users \ {dbCall[c].userName} : TheSub(c) \in userSubreddits[u]

RemoveRacingAddKeepsTables ==
  \A a, b \in DbCalls :
    (/\ dbCall[a].op = "removeUserSubreddit"
     /\ dbCall[b].op = "addSubreddit"
     /\ dbCall[a].userName # dbCall[b].userName
     /\ TheSub(a) = toLowerCase(TheSub(b))
     /\ Settled(a) /\ Settled(b))
      => /\ TheSub(a) \notin userSubreddits[dbCall[a].userName]
         /\ SubscribedSubsHaveTables

C32_RemoveDropsUnsharedTableOnly == RemoveAloneIsExact /\ RemoveRacingAddKeepsTables

(***************************************************************************)
(* C33: batchAddUserSubreddits (and addUserSubreddit) never takes a        *)
(* subreddit off the user's list, and when two calls for the same user     *)
(* that ran at the same time are both done, the list holds the subreddits  *)
(* of both.                                                                *)
(***************************************************************************)
BatchAddNeverRemoves ==
  \A c \in DbCalls :
    (dbCall[c].op = "batchAddUserSubreddits" /\ dbCall[c].pc = "update" /\ dbCall'[c].pc = "done")
      => \A u \in Users : userSubreddits[u] \subseteq userSubreddits'[u]

BothAddsKept ==
  \A a, b \in DbCalls :
    (/\ a # b
     /\ dbCall[a].op = "batchAddUserSubreddits" /\ dbCall[a].pc = "done"
     /\ dbCall[b].op = "batchAddUserSubreddits" /\ dbCall[b].pc = "done"
     /\ dbCall[a].userName = dbCall[b].userName)
      => dbCall[a].subreddits \cup dbCall[b].subreddits \subseteq userSubreddits[dbCall[a].userName]

C33_ConcurrentAddsLoseNothing == [](BothAddsKept) /\ [][BatchAddNeverRemoves]_vars

(***************************************************************************)
(* C34: whenever no batchSaveComments call is under way, also after a call *)
(* one of whose two writes failed, a post whose commentsDownloaded flag is *)
(* true has its comments in the key-value store: getPostComments does not  *)
(* answer null for it.                                                     *)
(***************************************************************************)
C34_FlaggedPostsHaveComments ==
  save.pc = "idle" =>
    \A p \in CommentedPosts :
      commentsDownloaded[p] =>
        /\ commentsDB[p].type = "string"
        /\ getPostComments(p).value.type # "null"

(***************************************************************************)
(* C36: getPostComments(postId) always resolves: to null when nothing is   *)
(* stored for the post, to the empty list when the stored string is not    *)
(* JSON or has no list at [1].data.children, and to that list otherwise.   *)
(***************************************************************************)
\* the stored strings that hold a list at [1].data.children, and that list
WithChildren == {EmptyChildren, OneChild}

ChildrenOf(text) == IF text = OneChild THEN <<String("c1")>> ELSE <<>>

AnswerIsRight(postId, answer) ==
  LET stored == commentsDB[postId] IN
  /\ answer.state = "resolved"
  /\ IF stored.type = "undefined" THEN answer.value.type = "null"
     ELSE /\ answer.value.type = "array"
          /\ answer.value.val = IF stored.val \in WithChildren THEN ChildrenOf(stored.val)
                                ELSE <<>>

GetPostCommentsAnswers ==
  (comments' # comments) => AnswerIsRight(comments'.postId, comments'.promise)

C36_GetPostCommentsTotal == [][GetPostCommentsAnswers]_vars

\* the comments of a post whose stored string is not JSON were asked for, after
\* the comments of a post with a comment were
C36_Witness ==
  /\ comments.postId \in CommentedPosts
  /\ commentsDB[comments.postId] = String(NotJson)
  /\ comments.promise.state = "resolved"
  /\ comments.promise.value.type = "array"
  /\ \E p \in CommentedPosts : commentsDB[p] = String(OneChild)

(***************************************************************************)
(* C35: addSubreddit is all or nothing.  After a call that failed, made    *)
(* with no other call under way, the master list, the users' lists and     *)
(* the subreddit tables, in the database and as the program knows them,    *)
(* are what they were; after a call that succeeded the subreddit is in the *)
(* master list and in the user's list and has its table.                   *)
(***************************************************************************)
\* the database as it is when no call has touched it
AsBefore ==
  /\ masterList = UNION {userSubreddits[u] : u \in Users}
  /\ subredditTables = masterList

FailedAddLeavesDatabase ==
  \A c \in DbCalls :
    (dbCall[c].op = "addSubreddit" /\ dbCall[c].pc = "rejected" /\ AloneCall(c)) => AsBefore

FailedAddLeavesTablesMap ==
  \A c \in DbCalls :
    (dbCall[c].op = "addSubreddit" /\ dbCall[c].pc = "rejected" /\ AloneCall(c)) =>
      subredditTablesMap = subredditTables

AddedIsComplete ==
  \A c \in DbCalls :
    (dbCall[c].op = "addSubreddit" /\ dbCall[c].pc = "done" /\ AloneCall(c)) =>
      /\ TheSub(c) \in masterList
      /\ TheSub(c) \in userSubreddits[dbCall[c].userName]
      /\ toLowerCase(TheSub(c)) \in subredditTables
      /\ toLowerCase(TheSub(c)) \in subredditTablesMap

C35_AddSubredditAllOrNothing ==
  FailedAddLeavesDatabase /\ FailedAddLeavesTablesMap /\ AddedIsComplete

=============================================================================
